---- MODULE Spec2Model ----
(***************************************************************************)
(* A model of the UAVLogViewer backend (src/backend/uav_log_viewer).       *)
(*                                                                         *)
(* The module holds several specifications over one set of variables:      *)
(*   SpecConv     ConversationState.append, one call at a time             *)
(*   SpecMetrics  compute_metrics over bounded telemetry trees             *)
(*   SpecAnom     highlight_anomalies over bounded telemetry trees         *)
(*   SpecTree     discover_fields / extract_value over nested trees        *)
(*   SpecParse    extract_response_parts and the parsing step of           *)
(*                process_chat_request over bounded raw model texts        *)
(*   Spec         the /chat and /analysis request handlers                 *)
(* Each specification leaves the variables of the others at their initial  *)
(* value.                                                                  *)
(***************************************************************************)
EXTENDS Integers, Sequences, FiniteSets, TLC

VARIABLES
    history,      \* conversation_state.history: sequence of [role, content]
    appended,     \* ghost: every turn ever passed to append, in call order
    mode,         \* position of the pure-function harnesses ("idle" elsewhere)
    tele,         \* telemetry tree handed to compute_metrics / highlight_anomalies
    metrics,      \* outcome of compute_metrics(tele)
    flags,        \* outcome of highlight_anomalies(tele)
    tree,         \* nested tree handed to discover_fields
    fields,       \* result of discover_fields(tree): a set of paths
    resolved,     \* extract_value(tree, p) for every path p of fields
    rawParts,     \* ghost: the pieces the raw model text was assembled from
    raw,          \* raw model text (message.content), a sequence of tokens
    parsed,       \* {answer, suggested_questions} returned to the caller
    extraction,   \* a run of extract_relevant_data: its inputs and results
    tailed,       \* a call conversation_state.tail(n): n and what it returned
    prompt,       \* a prompt as built, and as _inject_history returns it
    env,          \* which API keys the process environment holds
    req,          \* per connection slot: the request in flight there, or NoReq
    calls,        \* per slot: external-service calls made for its request
    served,       \* number of requests answered
    memo          \* lru_cache of _embed_batch: the (self, texts) keys it holds

convVars  == <<history, appended>>
pureVars  == <<mode, tele, metrics, flags, tree, fields, resolved, rawParts,
               raw, parsed, extraction, tailed, prompt>>
routeVars == <<env, req, calls, served, memo>>
vars      == <<history, appended, mode, tele, metrics, flags, tree, fields,
               resolved, rawParts, raw, parsed, extraction, tailed, prompt, env,
               req, calls, served, memo>>

----------------------------------------------------------------------------
(* Generic helpers                                                         *)

None == "None"

Last(s) == s[Len(s)]

Max2(a, b) == IF a >= b THEN a ELSE b

Min2(a, b) == IF a <= b THEN a ELSE b

\* Python's s[-n:] for n >= 1: the last n elements, all of s when it is shorter.
Suffix(s, n) == SubSeq(s, Max2(1, Len(s) - n + 1), Len(s))

----------------------------------------------------------------------------
(* chat/conversation.py                                                    *)

\* _MAX_HISTORY: keep the last N turns.
MAX_HISTORY == 15

Roles == {"user", "assistant"}

\* A variant of append that drops the newest turn instead of the oldest.
AppendDropNewest(h, role, content) ==
    LET h1 == Append(h, [role |-> role, content |-> content])
    IN  IF Len(h1) > MAX_HISTORY THEN SubSeq(h1, 1, Len(h1) - 1) ELSE h1

\* ConversationState.append: add a turn, then `del self.history[0]` when the
\* list has grown beyond _MAX_HISTORY.
ConvAppend(h, role, content) ==
    LET h1 == Append(h, [role |-> role, content |-> content])
    IN  IF Len(h1) > MAX_HISTORY THEN Tail(h1) ELSE h1

\* ConversationState.tail(n) for n >= 0: self.history[-n:], a new list.  For
\* n = 0 the slice is history[0:], the whole history.
ConvTail(h, n) == IF n = 0 THEN h ELSE Suffix(h, n)

\* _inject_history: conversation_state.tail(3)
TAIL_TURNS == 3

\* Number of append calls explored by SpecConv.
MaxAppends == 17

\* Contents are message texts; SpecConv numbers them so that every appended
\* turn is distinguishable from every other.
InitConv ==
    /\ history = <<>>
    /\ appended = <<>>

InitPure ==
    /\ mode = "idle"
    /\ tele = None
    /\ metrics = None
    /\ flags = None
    /\ tree = None
    /\ fields = None
    /\ resolved = None
    /\ rawParts = None
    /\ raw = None
    /\ parsed = None
    /\ extraction = None
    /\ tailed = None
    /\ prompt = None

\* Connections the server holds at a time.
Slots == {1, 2}

\* A free slot.  rid numbers the requests in order of arrival; met (ghost)
\* holds the requests that were in flight at the same time as this one.
NoReq ==
    [kind |-> "none", rid |-> 0, met |-> {}, question |-> <<>>,
     telemetry |-> [given |-> FALSE, tree |-> [x \in {} |-> 0]],
     pc |-> "none", path |-> "none", rerank |-> FALSE, extractor |-> 0,
     status |-> 0, error |-> "none", hist0 |-> <<>>, selected |-> {},
     prompt |-> [holds |-> {}, block |-> <<>>],
     result |-> [answer |-> <<>>, suggested_questions |-> <<>>],
     table |-> [kind |-> "pending"]]

InitRoute ==
    /\ env = [cohere |-> TRUE, groq |-> TRUE]
    /\ req = [i \in Slots |-> NoReq]
    /\ calls = [i \in Slots |-> <<>>]
    /\ served = 0
    /\ memo = {}

\* One call conversation_state.append(role, content).
DoAppend ==
    /\ Len(appended) < MaxAppends
    /\ \E role \in Roles :
         LET content == Len(appended) + 1
         IN  /\ history' = ConvAppend(history, role, content)
             /\ appended' = Append(appended, [role |-> role, content |-> content])
    /\ UNCHANGED <<pureVars, routeVars>>

InitConvSpec == InitConv /\ InitPure /\ InitRoute

NextConv == DoAppend

SpecConv == InitConvSpec /\ [][NextConv]_vars

\* Longest history and largest n explored by SpecTail.
MaxTailLen == 5

MaxTailN == 6

\* Histories of numbered turns, and an n.
InitTail ==
    /\ \E len \in 0..MaxTailLen :
          \E roles \in [1..len -> Roles] :
              history = [k \in 1..len |-> [role |-> roles[k], content |-> k]]
    /\ appended = history
    /\ mode = "tail"
    /\ \E n \in 0..MaxTailN : tailed = [n |-> n, turns |-> <<>>]
    /\ tele = None /\ metrics = None /\ flags = None
    /\ tree = None /\ fields = None /\ resolved = None
    /\ rawParts = None /\ raw = None /\ parsed = None
    /\ extraction = None
    /\ prompt = None

\* One call conversation_state.tail(n).
DoTail ==
    /\ mode = "tail"
    /\ tailed' = [tailed EXCEPT !.turns = ConvTail(history, tailed.n)]
    /\ mode' = "tailed"
    /\ UNCHANGED <<convVars, routeVars, prompt, tele, metrics, flags, tree,
                   fields, resolved, rawParts, raw, parsed, extraction>>

NextTail == DoTail

InitTailSpec == InitRoute /\ InitTail

SpecTail == InitTailSpec /\ [][NextTail]_vars

\* C25: for every history and every n >= 0, tail(n) returns the last n turns
\* of the history in order, all of them when the history holds fewer than n,
\* and leaves the history unchanged.
C25_TailIsLastN ==
    mode = "tailed" =>
        LET k == Min2(tailed.n, Len(history))
        IN  /\ Len(tailed.turns) = k
            /\ \A j \in 1..k : tailed.turns[j] = history[Len(history) - k + j]
            /\ history = appended


\* C1: after any sequence of append calls the history holds at most 15 turns,
\* and they are exactly the most recently appended turns in call order (the
\* oldest turn is the one dropped).
C1_HistoryIsRecentTurns ==
    /\ Len(history) <= MAX_HISTORY
    /\ Len(history) = Min2(Len(appended), MAX_HISTORY)
    /\ history = Suffix(appended, MAX_HISTORY)

\* Two turns have been dropped, and the history still ends with the newest.
C1_Witness ==
    /\ Len(appended) = MAX_HISTORY + 2
    /\ Len(history) = MAX_HISTORY
    /\ history[1].content = 3
    /\ Last(history).content = MAX_HISTORY + 2

----------------------------------------------------------------------------
(* chat/prompt.py, chat/processor.py: splitting the model's raw text       *)
(*                                                                         *)
(* A text is a sequence of tokens.  "<A>", "</A>", "<S>", "</S>" stand for *)
(* the literal tags <answer>, </answer>, <suggested_questions> and         *)
(* </suggested_questions>; "NL" is a line break, "SP" other white space,   *)
(* "N." a run of digits followed by a dot, "-" a bullet ("-" or the dot    *)
(* bullet); "w" and "x" are words.                                         *)

TagTokens == {"<A>", "</A>", "<S>", "</S>"}

Tokens == TagTokens \cup {"NL", "SP", "N.", "-", "w", "x"}

IsWs(t) == t \in {"NL", "SP"}

SetMin(S) == CHOOSE x \in S : \A y \in S : x <= y

SetMax(S) == CHOOSE x \in S : \A y \in S : x >= y

Positions(s, t) == {i \in 1..Len(s) : s[i] = t}

\* Python's `t in s`.
Contains(s, t) == Positions(s, t) # {}

\* str.strip(): leading and trailing white space removed.
Strip(s) ==
    LET keep == {i \in 1..Len(s) : ~IsWs(s[i])}
    IN  IF keep = {} THEN <<>> ELSE SubSeq(s, SetMin(keep), SetMax(keep))

\* The \s* of the list-prefix pattern: leading white space removed.
LStrip(s) ==
    LET keep == {i \in 1..Len(s) : ~IsWs(s[i])}
    IN  IF keep = {} THEN <<>> ELSE SubSeq(s, SetMin(keep), Len(s))

\* s.split(t)[1], for t in s: the text between the first occurrence of t and
\* the next one (or the end).
SplitSecond(s, t) ==
    LET p     == Positions(s, t)
        first == SetMin(p)
        rest  == {i \in p : i > first}
        stop  == IF rest = {} THEN Len(s) + 1 ELSE SetMin(rest)
    IN  SubSeq(s, first + 1, stop - 1)

\* s.split(t)[0]: the text before the first occurrence of t (all of s when t
\* does not occur).
SplitFirst(s, t) ==
    LET p == Positions(s, t)
    IN  IF p = {} THEN s ELSE SubSeq(s, 1, SetMin(p) - 1)

\* str.splitlines(): a trailing line break opens no further line.
RECURSIVE SplitLines(_)
SplitLines(s) ==
    IF s = <<>> THEN <<>>
    ELSE LET nl == Positions(s, "NL")
         IN  IF nl = {} THEN <<s>>
             ELSE <<SubSeq(s, 1, SetMin(nl) - 1)>>
                    \o SplitLines(SubSeq(s, SetMin(nl) + 1, Len(s)))

\* re.sub(r"^(\d+\.|[-bullet])\s*", "", line)
RemoveListPrefix(line) ==
    IF line # <<>> /\ line[1] \in {"N.", "-"} THEN LStrip(Tail(line)) ELSE line

\* The loop over block.strip().splitlines(): blank lines skipped, the list
\* prefix removed from the others.
RECURSIVE CollectSuggestions(_)
CollectSuggestions(ls) ==
    IF ls = <<>> THEN <<>>
    ELSE LET line == Strip(Head(ls))
         IN  IF line = <<>> THEN CollectSuggestions(Tail(ls))
             ELSE <<RemoveListPrefix(line)>> \o CollectSuggestions(Tail(ls))

\* extract_response_parts: parts["answer"].
PartsAnswer(response) ==
    IF Contains(response, "<A>") /\ Contains(response, "</A>")
    THEN Strip(SplitFirst(SplitSecond(response, "<A>"), "</A>"))
    ELSE <<>>

\* extract_response_parts: parts["suggested_questions"].
PartsSuggestions(response) ==
    IF Contains(response, "<S>") /\ Contains(response, "</S>")
    THEN CollectSuggestions(
             SplitLines(Strip(SplitFirst(SplitSecond(response, "<S>"), "</S>"))))
    ELSE <<>>

\* resp.choices[0].message.content.strip()
RawAnswer(content) == Strip(content)

\* A variant of step 6 without the `or raw_answer` fallback.
ParseNoFallback(content) ==
    [answer |-> PartsAnswer(RawAnswer(content)),
     suggested_questions |-> PartsSuggestions(RawAnswer(content))]

\* process_chat_request, steps 6 and 7: parts = extract_response_parts(raw),
\* answer_text = parts["answer"] or raw_answer.  extract_response_parts raises
\* nothing on a string, so the except branch is never taken.
ParseResponse(content) ==
    LET raw_answer == RawAnswer(content)
        answer     == PartsAnswer(raw_answer)
    IN  [answer |-> IF answer # <<>> THEN answer ELSE raw_answer,
         suggested_questions |-> PartsSuggestions(raw_answer)]

\* Bounded raw texts.  A text is assembled from pieces, kept in rawParts so
\* that what the parser should find is known independently of the parser:
\*   pre [<A> ansBody </A>] mid [<S> NL line NL line ... NL </S>] post
\* (the two blocks in the other order when swap holds), each line being a
\* list prefix followed by a tag-free text.  Texts without blocks are every
\* token sequence of at most MaxFreeLen tokens.
MaxLines == 4

MaxFreeLen == 2

RECURSIVE SeqsUpTo(_, _)
SeqsUpTo(S, n) ==
    IF n = 0 THEN {<<>>}
    ELSE LET shorter == SeqsUpTo(S, n - 1)
         IN  shorter \cup {Append(q, x) : q \in shorter, x \in S}

FreeTexts == SeqsUpTo(Tokens, MaxFreeLen)

AnswerBodies == {<<>>, <<"SP">>, <<"NL", "w", "NL">>, <<"w", "SP", "x">>}

LinePrefixes == {<<"N.", "SP">>, <<"-", "SP">>, <<>>}

LineTexts == {<<"w">>, <<"x", "SP", "w">>, <<>>}

SuggestionLines == [prefix : LinePrefixes, text : LineTexts]

Padding == {<<>>, <<"w", "NL">>}

RawPartsSet ==
    [pre : FreeTexts, hasA : {FALSE}, ansBody : {<<>>}, mid : {<<>>},
     hasS : {FALSE}, lines : {<<>>}, post : {<<>>}, swap : {FALSE}]
    \cup
    [pre : Padding, hasA : {TRUE}, ansBody : AnswerBodies, mid : Padding,
     hasS : BOOLEAN, lines : SeqsUpTo({[prefix |-> <<"N.", "SP">>, text |-> <<"w">>],
                                      [prefix |-> <<"N.", "SP">>, text |-> <<"x", "SP", "w">>],
                                      [prefix |-> <<"-", "SP">>, text |-> <<"x", "SP", "w">>],
                                      [prefix |-> <<>>, text |-> <<>>]}, MaxLines),
     post : {<<>>}, swap : BOOLEAN]
    \cup
    [pre : {<<>>}, hasA : BOOLEAN, ansBody : {<<"w", "SP", "x">>}, mid : {<<"NL">>},
     hasS : {TRUE}, lines : SeqsUpTo(SuggestionLines, 3),
     post : Padding, swap : {FALSE}]

RECURSIVE JoinLines(_)
JoinLines(ls) ==
    IF ls = <<>> THEN <<>>
    ELSE Head(ls).prefix \o Head(ls).text \o <<"NL">> \o JoinLines(Tail(ls))

AnswerBlock(p) == IF p.hasA THEN <<"<A>">> \o p.ansBody \o <<"</A>">> ELSE <<>>

SuggestionsBlock(p) ==
    IF p.hasS THEN <<"<S>", "NL">> \o JoinLines(p.lines) \o <<"</S>">> ELSE <<>>

Assemble(p) ==
    IF p.swap
    THEN p.pre \o SuggestionsBlock(p) \o p.mid \o AnswerBlock(p) \o p.post
    ELSE p.pre \o AnswerBlock(p) \o p.mid \o SuggestionsBlock(p) \o p.post

InitParse ==
    /\ rawParts \in RawPartsSet
    /\ raw = Assemble(rawParts)
    /\ mode = "raw"
    /\ parsed = None
    /\ tele = None /\ metrics = None /\ flags = None
    /\ tree = None /\ fields = None /\ resolved = None
    /\ extraction = None
    /\ tailed = None
    /\ prompt = None

\* The parsing step of process_chat_request applied to the raw text.
DoParse ==
    /\ mode = "raw"
    /\ parsed' = ParseResponse(raw)
    /\ mode' = "parsed"
    /\ UNCHANGED <<convVars, routeVars, tailed, prompt, extraction, tele, metrics, flags,
                   tree, fields, resolved, rawParts, raw>>

NextParse == DoParse

InitParseSpec == InitConv /\ InitRoute /\ InitParse

SpecParse == InitParseSpec /\ [][NextParse]_vars

HasNoTags(text) == \A i \in 1..Len(text) : text[i] \notin TagTokens

\* One well-formed <answer> block and one well-formed <suggested_questions>
\* block holding three numbered lines.
WellFormedThree(p) ==
    /\ p.hasA /\ p.hasS
    /\ HasNoTags(p.pre) /\ HasNoTags(p.mid) /\ HasNoTags(p.post)
    /\ Len(p.lines) = 3
    /\ \A i \in 1..3 : p.lines[i].prefix # <<>> /\ p.lines[i].prefix[1] = "N."

LineTextsOf(p) == [i \in 1..Len(p.lines) |-> p.lines[i].text]

C8_AtMostThree ==
    mode = "parsed" =>
        /\ Len(parsed.suggested_questions) <= 3
        /\ ~Contains(raw, "<S>") => parsed.suggested_questions = <<>>

----------------------------------------------------------------------------
(* analysis/telemetry.py: the metric library                               *)
(*                                                                         *)
(* A telemetry tree is a function from top-level keys to values; under     *)
(* "messages" it maps message-type names to functions from field names to  *)
(* sequences of integer samples (raw units: ms, mm, cm/s, mV, cA).         *)
(* A number is a pair <<num, den>> standing for num/den, so that the unit  *)
(* conversions (/1000, /100) and the means are exact; <<0, 0>> is NaN and  *)
(* <<n, 0>> an infinity.  A function's outcome is one of                   *)
(*   [kind |-> "none"]      it returned None                               *)
(*   [kind |-> "raise"]     an exception left it                           *)
(*   [kind |-> "scalar", v] a float                                        *)
(*   [kind |-> "tuple", v]  a tuple of floats                              *)
(*   [kind |-> "dict", v]   a dict from axis to a (mean, std) tuple        *)

EmptyDict == [x \in {} |-> 0]

RNone == [kind |-> "none"]

RRaise == [kind |-> "raise"]

RScalar(x) == [kind |-> "scalar", v |-> x]

RTuple(xs) == [kind |-> "tuple", v |-> xs]

RDict(d) == [kind |-> "dict", v |-> d]

NaN == <<0, 0>>

IsNaN(x) == x[1] = 0 /\ x[2] = 0

\* x <= y for numbers that are not NaN.
RatLeq(x, y) ==
    LET a == IF x[2] < 0 THEN <<-x[1], -x[2]>> ELSE x
        b == IF y[2] < 0 THEN <<-y[1], -y[2]>> ELSE y
    IN  IF a[2] = 0 /\ b[2] = 0 THEN a[1] <= b[1]
        ELSE a[1] * b[2] <= b[1] * a[2]

RECURSIVE SumSeq(_)
SumSeq(s) == IF s = <<>> THEN 0 ELSE Head(s) + SumSeq(Tail(s))

Range(s) == {s[i] : i \in 1..Len(s)}

\* np.nanmax / np.nanmin of a non-empty array of numbers: NaN entries are
\* ignored, and the result is NaN when every entry is NaN.
NanMax(xs) ==
    LET real == {x \in Range(xs) : ~IsNaN(x)}
    IN  IF real = {} THEN NaN
        ELSE CHOOSE x \in real : \A y \in real : RatLeq(y, x)

NanMin(xs) ==
    LET real == {x \in Range(xs) : ~IsNaN(x)}
    IN  IF real = {} THEN NaN
        ELSE CHOOSE x \in real : \A y \in real : RatLeq(x, y)

\* Length of the result of an elementwise numpy operation on 1-D arrays of
\* lengths p and q; -1 when the shapes do not broadcast (ValueError).
BroadcastLen(p, q) ==
    IF p = q THEN p ELSE IF p = 1 THEN q ELSE IF q = 1 THEN p ELSE -1

\* The i-th operand of a broadcast operation.
Bc(s, i) == IF Len(s) = 1 THEN s[1] ELSE s[i]

\* np.diff of a 1-D array.
Diff(s) == [i \in 1..(IF Len(s) = 0 THEN 0 ELSE Len(s) - 1) |-> s[i + 1] - s[i]]

\* Integer square root; exact for the perfect squares the model feeds it.
Isqrt(n) == CHOOSE r \in 0..n : r * r <= n /\ n < (r + 1) * (r + 1)

\* tele.get("messages", {}).get(msg) is not None
HasMsg(t, msg) ==
    /\ "messages" \in DOMAIN t
    /\ msg \in DOMAIN t["messages"]

\* _get_msg, for a message type that is present.
GetMsg(t, msg) == t["messages"][msg]

HasField(t, msg, f) == HasMsg(t, msg) /\ f \in DOMAIN GetMsg(t, msg)

\* time_vector is not None.  Times are kept in ms; the code divides by 1000.
HasTime(t) ==
    \/ HasField(t, "SYSTEM_TIME", "time_boot_ms")
    \/ HasField(t, "GLOBAL_POSITION_INT", "time_boot_ms")

time_vector(t) ==
    IF HasField(t, "SYSTEM_TIME", "time_boot_ms")
    THEN GetMsg(t, "SYSTEM_TIME")["time_boot_ms"]
    ELSE GetMsg(t, "GLOBAL_POSITION_INT")["time_boot_ms"]

flight_duration(t) ==
    IF ~HasTime(t) \/ Len(time_vector(t)) < 2 THEN RNone
    ELSE RScalar(<<Last(time_vector(t)) - time_vector(t)[1], 1000>>)

\* altitude_vector is not None.  Altitudes are kept in the raw unit; the code
\* divides by 1000.
HasAlt(t) == HasField(t, "GLOBAL_POSITION_INT", "alt")

altitude_vector(t) == GetMsg(t, "GLOBAL_POSITION_INT")["alt"]

\* (min, max, mean) of a non-empty array x / scale.
Stats3(x, scale) ==
    RTuple(<< <<SetMin(Range(x)), scale>>, <<SetMax(Range(x)), scale>>,
              <<SumSeq(x), scale * Len(x)>> >>)

altitude_stats(t) ==
    IF ~HasAlt(t) \/ Len(altitude_vector(t)) = 0 THEN RNone
    ELSE Stats3(altitude_vector(t), 1000)

\* vertical_speed_vector: "none", "raise" (np.diff(alt) / np.diff(t) does not
\* broadcast) or the vector of rates in m/s.
vertical_speed_vector(t) ==
    IF ~HasAlt(t) \/ ~HasTime(t) \/ Len(altitude_vector(t)) < 2 THEN RNone
    ELSE LET da == Diff(altitude_vector(t))
             dt == Diff(time_vector(t))
             n  == BroadcastLen(Len(da), Len(dt))
         IN  IF n < 0 THEN RRaise
             ELSE [kind |-> "vec", v |-> [i \in 1..n |-> <<Bc(da, i), Bc(dt, i)>>]]

max_climb_rate(t) ==
    LET vs == vertical_speed_vector(t)
    IN  IF vs.kind # "vec" THEN vs
        ELSE IF Len(vs.v) = 0 THEN RRaise
        ELSE RScalar(NanMax(vs.v))

max_descent_rate(t) ==
    LET vs == vertical_speed_vector(t)
    IN  IF vs.kind # "vec" THEN vs
        ELSE IF Len(vs.v) = 0 THEN RRaise
        ELSE RScalar(NanMin(vs.v))

\* velocity_vectors is not None.  Speeds are kept in cm/s; the code divides
\* by 100.
HasVelocity(t) ==
    /\ HasMsg(t, "GLOBAL_POSITION_INT")
    /\ {"vx", "vy", "vz"} \subseteq DOMAIN GetMsg(t, "GLOBAL_POSITION_INT")

\* groundspeed_vector: np.hypot(vx, vy), in cm/s.
groundspeed_vector(t) ==
    IF ~HasVelocity(t) THEN RNone
    ELSE LET g == GetMsg(t, "GLOBAL_POSITION_INT")
             n == BroadcastLen(Len(g["vx"]), Len(g["vy"]))
         IN  IF n < 0 THEN RRaise
             ELSE [kind |-> "vec",
                   v |-> [i \in 1..n |->
                            Isqrt(Bc(g["vx"], i) * Bc(g["vx"], i)
                                  + Bc(g["vy"], i) * Bc(g["vy"], i))]]

groundspeed_stats(t) ==
    LET gs == groundspeed_vector(t)
    IN  IF gs.kind # "vec" THEN gs
        ELSE IF Len(gs.v) = 0 THEN RNone
        ELSE Stats3(gs.v, 100)

\* A variant that takes every time step to be as long as the first one.
RiemannSumUniform(speed, tv) ==
    LET sp == Tail(speed)
        dt == Diff(tv)
        n  == BroadcastLen(Len(sp), Len(dt))
    IN  IF n < 0 THEN RRaise
        ELSE RScalar(<<SumSeq([i \in 1..n |-> Bc(sp, i) * dt[1]]), 100000>>)

\* sum(speed[1:] * np.diff(t)), speed in cm/s and t in ms.
RiemannSum(speed, tv) ==
    LET sp == Tail(speed)
        dt == Diff(tv)
        n  == BroadcastLen(Len(sp), Len(dt))
    IN  IF n < 0 THEN RRaise
        ELSE RScalar(<<SumSeq([i \in 1..n |-> Bc(sp, i) * Bc(dt, i)]), 100000>>)

distance_travelled_2d(t) ==
    LET gs == groundspeed_vector(t)
    IN  IF gs.kind = "raise" THEN RRaise
        ELSE IF gs.kind = "none" \/ ~HasTime(t) THEN RNone
        ELSE IF Len(gs.v) # Len(time_vector(t)) THEN RNone
        ELSE IF Len(gs.v) = 0 THEN RScalar(<<0, 100000>>)
        ELSE RiemannSum(gs.v, time_vector(t))

distance_travelled_3d(t) ==
    IF ~HasVelocity(t) \/ ~HasTime(t) THEN RNone
    ELSE LET g  == GetMsg(t, "GLOBAL_POSITION_INT")
             n1 == BroadcastLen(Len(g["vx"]), Len(g["vy"]))
             n  == IF n1 < 0 THEN -1 ELSE BroadcastLen(n1, Len(g["vz"]))
         IN  IF n < 0 THEN RRaise
             ELSE IF n = 0 THEN
                  \* speed[1:] is empty: the product broadcasts against a
                  \* diff of length 0 or 1 only.
                  (IF Len(Diff(time_vector(t))) <= 1 THEN RScalar(<<0, 100000>>)
                   ELSE RRaise)
             ELSE RiemannSum(
                      [i \in 1..n |->
                         Isqrt(Bc(g["vx"], i) * Bc(g["vx"], i)
                               + Bc(g["vy"], i) * Bc(g["vy"], i)
                               + Bc(g["vz"], i) * Bc(g["vz"], i))],
                      time_vector(t))

\* battery_stats: (nanmin of the voltages in V, nanmax of the currents in A).
\* A missing current_battery is a list of NaN as long as the voltages.
battery_stats(t) ==
    IF ~HasField(t, "BATTERY_STATUS", "voltages") THEN RNone
    ELSE LET b == GetMsg(t, "BATTERY_STATUS")
             v == [i \in 1..Len(b["voltages"]) |-> <<b["voltages"][i], 1000>>]
             c == IF "current_battery" \in DOMAIN b
                  THEN [i \in 1..Len(b["current_battery"]) |->
                          <<b["current_battery"][i], 100>>]
                  ELSE [i \in 1..Len(v) |-> NaN]
         IN  IF Len(v) = 0 \/ Len(c) = 0 THEN RRaise
             ELSE RTuple(<<NanMin(v), NanMax(c)>>)

\* satellite_visibility_stats: sats.min() raises on an empty array.
satellite_visibility_stats(t) ==
    IF ~HasField(t, "GPS_RAW_INT", "satellites_visible") THEN RNone
    ELSE LET sats == GetMsg(t, "GPS_RAW_INT")["satellites_visible"]
         IN  IF Len(sats) = 0 THEN RRaise ELSE Stats3(sats, 1)

AttitudeAxes == <<"roll", "pitch", "yaw">>

\* (arr.mean(), arr.std()) of one axis, in the raw unit (the code multiplies
\* by 180/pi).  The deviation is kept as its square, the variance
\* (n*sum(x^2) - sum(x)^2) / n^2; both are NaN for an empty array.
MeanStd(x) ==
    IF Len(x) = 0 THEN <<NaN, NaN>>
    ELSE << <<SumSeq(x), Len(x)>>,
            <<Len(x) * SumSeq([i \in 1..Len(x) |-> x[i] * x[i]])
                - SumSeq(x) * SumSeq(x), Len(x) * Len(x)>> >>

attitude_stats(t) ==
    IF ~HasMsg(t, "ATTITUDE") THEN RNone
    ELSE LET att == GetMsg(t, "ATTITUDE")
         IN  RDict([f \in Range(AttitudeAxes) \cap DOMAIN att |-> MeanStd(att[f])])

----------------------------------------------------------------------------
(* analysis/telemetry.py: the metric aggregator                            *)
(*                                                                         *)
(* A metric name or a key of the table is a sequence of string segments    *)
(* whose concatenation is the Python string: <<"altitude", "_stats">> is   *)
(* "altitude_stats" and <<"altitude", "_min">> is "altitude_min".          *)

METRIC_FUNCS ==
    << <<"flight_duration_s">>,
       <<"altitude", "_stats">>,
       <<"max_climb_rate_mps">>,
       <<"max_descent_rate_mps">>,
       <<"groundspeed", "_stats">>,
       <<"distance_2d_m">>,
       <<"distance_3d_m">>,
       <<"battery", "_stats">>,
       <<"satellite_visibility">>,
       <<"attitude", "_stats">> >>

\* fn(tele) for the function paired with `name` in _METRIC_FUNCS.
CallMetric(name, t) ==
    CASE name = <<"flight_duration_s">>    -> flight_duration(t)
      [] name = <<"altitude", "_stats">>   -> altitude_stats(t)
      [] name = <<"max_climb_rate_mps">>   -> max_climb_rate(t)
      [] name = <<"max_descent_rate_mps">> -> max_descent_rate(t)
      [] name = <<"groundspeed", "_stats">> -> groundspeed_stats(t)
      [] name = <<"distance_2d_m">>        -> distance_travelled_2d(t)
      [] name = <<"distance_3d_m">>        -> distance_travelled_3d(t)
      [] name = <<"battery", "_stats">>    -> battery_stats(t)
      [] name = <<"satellite_visibility">> -> satellite_visibility_stats(t)
      [] name = <<"attitude", "_stats">>   -> attitude_stats(t)

\* results[key] = val
Put(results, key, val) ==
    [k \in DOMAIN results \cup {key} |-> IF k = key THEN val ELSE results[k]]

\* name.endswith("_stats")
EndsWithStats(name) == Last(name) = "_stats"

\* name.replace("_stats", "")
StatsBase(name) == SelectSeq(name, LAMBDA seg : seg # "_stats")

\* The isinstance(val, dict) branch: one pair of keys per axis.
RECURSIVE FlattenDict(_, _, _)
FlattenDict(results, d, axes) ==
    IF axes = <<>> THEN results
    ELSE LET k == Head(axes)
         IN  IF k \notin DOMAIN d THEN FlattenDict(results, d, Tail(axes))
             ELSE FlattenDict(
                      Put(Put(results, <<k, "_mean_deg">>, RScalar(d[k][1])),
                          <<k, "_std_deg">>, RScalar(d[k][2])),
                      d, Tail(axes))

\* "Flatten based on return type": lines 232-256 of compute_metrics.
Flatten(results, name, val) ==
    IF val.kind = "tuple" THEN
        IF EndsWithStats(name) THEN
            LET base == StatsBase(name)
            IN  IF Len(val.v) = 3 THEN
                    Put(Put(Put(results, base \o <<"_min">>, RScalar(val.v[1])),
                            base \o <<"_max">>, RScalar(val.v[2])),
                        base \o <<"_mean">>, RScalar(val.v[3]))
                ELSE IF Len(val.v) = 2 THEN
                    Put(Put(results, base \o <<"_min">>, RScalar(val.v[1])),
                        base \o <<"_max">>, RScalar(val.v[2]))
                ELSE results
        ELSE IF name = <<"battery", "_stats">> THEN
            Put(Put(results, <<"battery", "_min_voltage_v">>, RScalar(val.v[1])),
                <<"battery", "_max_current_a">>, RScalar(val.v[2]))
        ELSE Put(results, name, val)
    ELSE IF val.kind = "dict" THEN FlattenDict(results, val.v, AttitudeAxes)
    ELSE Put(results, name, val)

\* A variant of the loop with no try/except around fn(tele): the first
\* exception ends compute_metrics.
RECURSIVE RunMetricsNoCatch(_, _, _)
RunMetricsNoCatch(t, i, results) ==
    IF i > Len(METRIC_FUNCS) THEN [kind |-> "table", v |-> results]
    ELSE LET val == CallMetric(METRIC_FUNCS[i], t)
         IN  IF val.kind = "raise" THEN RRaise
             ELSE IF val.kind = "none" THEN RunMetricsNoCatch(t, i + 1, results)
             ELSE RunMetricsNoCatch(t, i + 1, Flatten(results, METRIC_FUNCS[i], val))

ComputeMetricsNoCatch(t) == RunMetricsNoCatch(t, 1, EmptyDict)

\* The loop of compute_metrics from its i-th entry on: an exception of
\* fn(tele) and a None result both `continue`.
RECURSIVE RunMetrics(_, _, _)
RunMetrics(t, i, results) ==
    IF i > Len(METRIC_FUNCS) THEN [kind |-> "table", v |-> results]
    ELSE LET val == CallMetric(METRIC_FUNCS[i], t)
         IN  IF val.kind = "raise" THEN RunMetrics(t, i + 1, results)
             ELSE IF val.kind = "none" THEN RunMetrics(t, i + 1, results)
             ELSE RunMetrics(t, i + 1, Flatten(results, METRIC_FUNCS[i], val))

\* compute_metrics(tele): [kind |-> "table", v |-> the flat dict], or "raise"
\* were an exception to leave it.
compute_metrics(t) == RunMetrics(t, 1, EmptyDict)

\* Bounded telemetry for the metric functions.  Every message type is absent
\* or takes one of a few shapes built from sample series of SeriesLen samples:
\* complete, with a field missing, with series of different lengths, empty.
SeriesLen == 3

MsgTypes ==
    {"SYSTEM_TIME", "GLOBAL_POSITION_INT", "GPS_RAW_INT", "BATTERY_STATUS",
     "ATTITUDE"}

\* Boot times in ms with uneven spacing: 0, 1000, 3000, 6000, ...
TimeSeries(n) == [i \in 1..n |-> 500 * i * (i - 1)]

\* Altitudes 1000, 2000, 3000, ... in the raw unit.
AltSeries(n) == [i \in 1..n |-> 1000 * i]

ConstSeries(n, c) == [i \in 1..n |-> c]

SystemTimeShapes ==
    { [time_boot_ms |-> TimeSeries(SeriesLen)],
      [time_boot_ms |-> TimeSeries(1)],
      [time_boot_ms |-> <<>>],
      EmptyDict }

GlobalPositionShapes ==
    { [time_boot_ms |-> TimeSeries(SeriesLen), alt |-> AltSeries(SeriesLen),
       vx |-> ConstSeries(SeriesLen, 3), vy |-> ConstSeries(SeriesLen, 4),
       vz |-> ConstSeries(SeriesLen, 0)],
      [time_boot_ms |-> TimeSeries(SeriesLen - 1), alt |-> AltSeries(SeriesLen),
       vx |-> ConstSeries(SeriesLen, 3), vy |-> ConstSeries(SeriesLen + 1, 4),
       vz |-> ConstSeries(SeriesLen, 0)],
      [time_boot_ms |-> TimeSeries(SeriesLen), alt |-> AltSeries(SeriesLen + 2),
       vx |-> ConstSeries(SeriesLen, 3), vy |-> ConstSeries(SeriesLen, 4),
       vz |-> ConstSeries(1, 0)],
      [alt |-> AltSeries(SeriesLen)],
      [alt |-> AltSeries(SeriesLen), vx |-> ConstSeries(SeriesLen, 3),
       vy |-> ConstSeries(SeriesLen, 4)],
      [time_boot_ms |-> <<>>, alt |-> <<>>, vx |-> <<>>, vy |-> <<>>, vz |-> <<>>],
      [time_boot_ms |-> <<0, 2000, 2500, 7000>>, vx |-> ConstSeries(4, 6),
       vy |-> ConstSeries(4, 8), vz |-> ConstSeries(4, 1)],
      [vx |-> ConstSeries(2, 300), vy |-> ConstSeries(2, 400),
       vz |-> ConstSeries(2, 0)],
      EmptyDict }

GpsShapes ==
    { [satellites_visible |-> ConstSeries(SeriesLen, 4)],
      [satellites_visible |-> <<8, 8, 3, 8>>],
      [satellites_visible |-> <<>>],
      EmptyDict }

BatteryShapes ==
    { [voltages |-> ConstSeries(SeriesLen, 3700),
       current_battery |-> ConstSeries(SeriesLen, 150)],
      [voltages |-> <<3300, 4100>>],
      [voltages |-> <<3700>>, current_battery |-> <<>>],
      [voltages |-> <<>>],
      [current_battery |-> <<150>>] }

AttitudeShapes ==
    { [roll |-> ConstSeries(SeriesLen, 1), pitch |-> <<0, 2>>, yaw |-> <<3>>],
      [roll |-> <<1, 3>>],
      [pitch |-> <<>>],
      EmptyDict }

\* A message type is absent, or present in one of its shapes.
MsgOptions(shapes) ==
    {[present |-> FALSE, dict |-> EmptyDict]}
    \cup {[present |-> TRUE, dict |-> d] : d \in shapes}

\* The "messages" mapping holding the message types chosen present.
BuildMessages(opt) ==
    [m \in {x \in DOMAIN opt : opt[x].present} |-> opt[m].dict]

\* Every tree with a "messages" key holding any subset of the message types,
\* each in any of its shapes; and the tree without a "messages" key.
MessageMaps ==
    {BuildMessages(o) :
       o \in [SYSTEM_TIME : MsgOptions(SystemTimeShapes),
              GLOBAL_POSITION_INT : MsgOptions(GlobalPositionShapes),
              GPS_RAW_INT : MsgOptions(GpsShapes),
              BATTERY_STATUS : MsgOptions(BatteryShapes),
              ATTITUDE : MsgOptions(AttitudeShapes)]}

MetricTeleSet == {[messages |-> m] : m \in MessageMaps} \cup {EmptyDict}

InitMetrics ==
    /\ tele \in MetricTeleSet
    /\ mode = "tele"
    /\ metrics = [kind |-> "pending"]
    /\ flags = None
    /\ tree = None /\ fields = None /\ resolved = None
    /\ rawParts = None /\ raw = None /\ parsed = None
    /\ extraction = None
    /\ tailed = None
    /\ prompt = None

\* metrics = compute_metrics(tele)
DoComputeMetrics ==
    /\ mode = "tele"
    /\ metrics' = compute_metrics(tele)
    /\ mode' = "metrics"
    /\ UNCHANGED <<convVars, routeVars, tailed, prompt, extraction, tele, flags, tree, fields,
                   resolved, rawParts, raw, parsed>>

NextMetrics == DoComputeMetrics

InitMetricsSpec == InitConv /\ InitRoute /\ InitMetrics

SpecMetrics == InitMetricsSpec /\ [][NextMetrics]_vars

\* First segments of the keys that compute_metrics derives from a message type.
KeyBases(msg) ==
    CASE msg = "GLOBAL_POSITION_INT" ->
             {"altitude", "max_climb_rate_mps", "max_descent_rate_mps",
              "groundspeed", "distance_2d_m", "distance_3d_m"}
      [] msg = "GPS_RAW_INT"    -> {"satellite_visibility"}
      [] msg = "BATTERY_STATUS" -> {"battery"}
      [] msg = "ATTITUDE"       -> {"roll", "pitch", "yaw", "attitude"}
      [] msg = "SYSTEM_TIME"    -> {}

HasKeyOf(table, msg) == \E k \in DOMAIN table : k[1] \in KeyBases(msg)

\* C3: compute_metrics returns a table and no exception escapes it; a message
\* type missing from the tree leaves no key derived from it in the table
\* (flight_duration_s needs one of the two time sources), while the metrics
\* of the message types that are present with data are still produced.
C3_MetricsFailSoft ==
    mode = "metrics" =>
        /\ metrics.kind = "table"
        /\ \A msg \in MsgTypes : ~HasMsg(tele, msg) => ~HasKeyOf(metrics.v, msg)
        /\ ~HasMsg(tele, "SYSTEM_TIME") /\ ~HasMsg(tele, "GLOBAL_POSITION_INT")
              => <<"flight_duration_s">> \notin DOMAIN metrics.v
        /\ HasAlt(tele) /\ altitude_vector(tele) # <<>>
              => {<<"altitude", "_min">>, <<"altitude", "_max">>,
                  <<"altitude", "_mean">>} \subseteq DOMAIN metrics.v
        /\ HasField(tele, "GPS_RAW_INT", "satellites_visible")
              /\ GetMsg(tele, "GPS_RAW_INT")["satellites_visible"] # <<>>
              => HasKeyOf(metrics.v, "GPS_RAW_INT")
        /\ HasField(tele, "BATTERY_STATUS", "voltages")
              /\ GetMsg(tele, "BATTERY_STATUS")["voltages"] # <<>>
              /\ (HasField(tele, "BATTERY_STATUS", "current_battery")
                    => GetMsg(tele, "BATTERY_STATUS")["current_battery"] # <<>>)
              => HasKeyOf(metrics.v, "BATTERY_STATUS")
        /\ HasMsg(tele, "ATTITUDE")
              => \A f \in DOMAIN GetMsg(tele, "ATTITUDE") :
                    {<<f, "_mean_deg">>, <<f, "_std_deg">>} \subseteq DOMAIN metrics.v

\* ATTITUDE is missing, the satellite metric raised on an empty series and the
\* velocity metric on series of different lengths, and the altitude and
\* battery metrics are in the table all the same.
C3_Witness ==
    /\ mode = "metrics"
    /\ ~HasMsg(tele, "ATTITUDE")
    /\ satellite_visibility_stats(tele).kind = "raise"
    /\ groundspeed_stats(tele).kind = "raise"
    /\ metrics.kind = "table"
    /\ <<"altitude", "_max">> \in DOMAIN metrics.v
    /\ HasKeyOf(metrics.v, "BATTERY_STATUS")
    /\ ~HasKeyOf(metrics.v, "ATTITUDE")

\* C9: the 2-tuple of battery_stats is stored under battery_min_voltage_v and
\* battery_max_current_a, not under the {base}_min and {base}_max keys of the
\* generic tuple rule.
C9_BatteryKeys ==
    mode = "metrics" /\ battery_stats(tele).kind = "tuple" =>
        /\ <<"battery", "_min_voltage_v">> \in DOMAIN metrics.v
        /\ <<"battery", "_max_current_a">> \in DOMAIN metrics.v
        /\ <<"battery", "_min">> \notin DOMAIN metrics.v
        /\ <<"battery", "_max">> \notin DOMAIN metrics.v

\* The speed vectors the two distance functions integrate exist, and the
\* length of the time vector differs from theirs.
SpeedTimeMismatch(t) ==
    /\ HasVelocity(t) /\ HasTime(t)
    /\ groundspeed_vector(t).kind = "vec"
    /\ LET g == GetMsg(t, "GLOBAL_POSITION_INT")
           n == BroadcastLen(Len(groundspeed_vector(t).v), Len(g["vz"]))
       IN  /\ n >= 0
           /\ n # Len(time_vector(t))
           /\ Len(groundspeed_vector(t).v) # Len(time_vector(t))

\* C22: both distance functions require a speed vector and a time vector of
\* the same length: when the lengths differ neither produces a distance and
\* the table of compute_metrics has neither distance_2d_m nor distance_3d_m.
C22_NoDistanceOnMismatch ==
    mode = "metrics" /\ SpeedTimeMismatch(tele) =>
        /\ distance_travelled_2d(tele).kind # "scalar"
        /\ distance_travelled_3d(tele).kind # "scalar"
        /\ metrics.kind = "table"
        /\ <<"distance_2d_m">> \notin DOMAIN metrics.v
        /\ <<"distance_3d_m">> \notin DOMAIN metrics.v

\* C10: the table is flat: every value in it is a scalar, never a tuple or a
\* nested mapping.
C10_TableIsFlat ==
    mode = "metrics" /\ metrics.kind = "table" =>
        \A k \in DOMAIN metrics.v : metrics.v[k].kind = "scalar"

\* The functions of the metric library: those of _METRIC_FUNCS and the
\* vertical speed vector two of them are built on (time_vector only reads).
LibraryResults(t) ==
    {CallMetric(METRIC_FUNCS[i], t) : i \in 1..Len(METRIC_FUNCS)}
    \cup {vertical_speed_vector(t)}

\* C11: every function of the metric library fails soft: on a missing key,
\* an empty sequence or a length mismatch it returns None (or leaves the
\* axis out) and never raises.
C11_LibraryFailsSoft ==
    mode = "metrics" => \A r \in LibraryResults(tele) : r.kind # "raise"

\* x = y for two numbers <<num, den>> with non-zero denominators.
RatEq(x, y) == IF x[2] = y[2] THEN x[1] = y[1] ELSE x[1] * y[2] = y[1] * x[2]

\* Every sample has the horizontal speed v (cm/s), and the time vector is as
\* long as the speed vector and not empty.
ConstantSpeed(t, v) ==
    /\ HasTime(t)
    /\ groundspeed_vector(t).kind = "vec"
    /\ Len(groundspeed_vector(t).v) = Len(time_vector(t))
    /\ Len(time_vector(t)) >= 1
    /\ \A i \in 1..Len(groundspeed_vector(t).v) : groundspeed_vector(t).v[i] = v

SpeedsSeen == 0..20

\* C12: on a trajectory of constant horizontal speed v whose time vector is
\* as long as the speed vector, distance_travelled_2d is v * T, T being the
\* time from the first sample to the last, however the samples are spaced.
\* (v in cm/s and T in ms: v * T / 100000 metres.)
C12_ConstantSpeedDistance ==
    mode = "metrics" =>
        \A v \in SpeedsSeen :
            ConstantSpeed(tele, v) =>
                /\ distance_travelled_2d(tele).kind = "scalar"
                /\ RatEq(distance_travelled_2d(tele).v,
                         <<v * (Last(time_vector(tele)) - time_vector(tele)[1]),
                           100000>>)
                /\ <<"distance_2d_m">> \in DOMAIN metrics.v
                /\ metrics.v[<<"distance_2d_m">>] = distance_travelled_2d(tele)

\* Speed 10 cm/s over the unevenly spaced times 0, 2, 2.5 and 7 s: 0.7 m.
C12_Witness ==
    /\ mode = "metrics"
    /\ ConstantSpeed(tele, 10)
    /\ time_vector(tele) = <<0, 2000, 2500, 7000>>
    /\ RatEq(metrics.v[<<"distance_2d_m">>].v, <<7, 10>>)

----------------------------------------------------------------------------
(* analysis/anomalies.py: highlight_anomalies                              *)
(*                                                                         *)
(* A flag is [feature, index, value, pattern]; feature <<"attitude",       *)
(* "roll">> stands for the string "attitude.roll", index is 0-based as in  *)
(* the code and value a number <<num, den>>.  The hint, a formatted copy   *)
(* of feature, value and index, is left out.  Samples are integers (no     *)
(* None entries).                                                          *)

Z_THRESHOLD_TIMES_2 == 5

MIN_Z_SAMPLES == 5

MIN_SATELLITES == 6

SAG_MILLIVOLTS == 3400

MAX_VIBRATION == 30

Flag(feature, idx, value, pattern) ==
    [feature |-> feature, index |-> idx, value |-> value, pattern |-> pattern]

\* n * (x_i - mean) and n^2 * variance of an integer array of n samples.
Deviation(arr, i) == Len(arr) * arr[i] - SumSeq(arr)

ScaledVariance(arr) ==
    Len(arr) * SumSeq([i \in 1..Len(arr) |-> arr[i] * arr[i]])
        - SumSeq(arr) * SumSeq(arr)

\* z_scores[i] > threshold, for z = |x - mean| / (std + 1e-6) and the 2.5
\* threshold.  With d = n(x_i - mean) and V = n^2 var the test reads
\* 2|d| > 5 sqrt(V) + 5n * 1e-6.  For the integer samples of the model the
\* two sides differ by far more than the 1e-6 term and the float32 rounding
\* whenever 4 d^2 # 25 V (ZScoreIsExact below), so the test is 4 d^2 > 25 V.
ZExceeds(arr, i) ==
    4 * Deviation(arr, i) * Deviation(arr, i)
        > Z_THRESHOLD_TIMES_2 * Z_THRESHOLD_TIMES_2 * ScaledVariance(arr)

\* A variant comparing against a threshold of 2 instead of 2.5.
ZOutliersLowThreshold(name, arr) ==
    IF Len(arr) < MIN_Z_SAMPLES THEN <<>>
    ELSE LET hit == {i \in 1..Len(arr) :
                       4 * Deviation(arr, i) * Deviation(arr, i)
                           > 16 * ScaledVariance(arr)}
             RECURSIVE Build(_)
             Build(i) ==
                 IF i > Len(arr) THEN <<>>
                 ELSE (IF i \in hit
                       THEN <<Flag(name, i - 1, <<arr[i], 1>>, "z-score")>>
                       ELSE <<>>) \o Build(i + 1)
         IN  Build(1)

\* z_outliers(name, array): the flags it appends, in index order.
z_outliers(name, arr) ==
    IF Len(arr) < MIN_Z_SAMPLES THEN <<>>
    ELSE LET RECURSIVE Build(_)
             Build(i) ==
                 IF i > Len(arr) THEN <<>>
                 ELSE (IF ZExceeds(arr, i)
                       THEN <<Flag(name, i - 1, <<arr[i], 1>>, "z-score")>>
                       ELSE <<>>) \o Build(i + 1)
         IN  Build(1)

\* The z-score scans of one message type over the listed fields.
RECURSIVE ZScan(_, _, _, _)
ZScan(t, msg, prefix, fs) ==
    IF fs = <<>> \/ ~HasMsg(t, msg) THEN <<>>
    ELSE (IF Head(fs) \in DOMAIN GetMsg(t, msg)
          THEN z_outliers(<<prefix, Head(fs)>>, GetMsg(t, msg)[Head(fs)])
          ELSE <<>>) \o ZScan(t, msg, prefix, Tail(fs))

\* A variant of the satellite scan that also flags a sample of exactly 6.
LowSatellitesInclusive(t) ==
    IF ~HasField(t, "GPS_RAW_INT", "satellites_visible") THEN <<>>
    ELSE LET sats == GetMsg(t, "GPS_RAW_INT")["satellites_visible"]
             RECURSIVE Build(_)
             Build(i) ==
                 IF i > Len(sats) THEN <<>>
                 ELSE (IF sats[i] <= MIN_SATELLITES
                       THEN <<Flag(<<"gps", "satellites_visible">>, i - 1,
                                   <<sats[i], 1>>, "low_satellites")>>
                       ELSE <<>>) \o Build(i + 1)
         IN  Build(1)

\* The "GPS satellite count" scan.
LowSatellites(t) ==
    IF ~HasField(t, "GPS_RAW_INT", "satellites_visible") THEN <<>>
    ELSE LET sats == GetMsg(t, "GPS_RAW_INT")["satellites_visible"]
             RECURSIVE Build(_)
             Build(i) ==
                 IF i > Len(sats) THEN <<>>
                 ELSE (IF sats[i] < MIN_SATELLITES
                       THEN <<Flag(<<"gps", "satellites_visible">>, i - 1,
                                   <<sats[i], 1>>, "low_satellites")>>
                       ELSE <<>>) \o Build(i + 1)
         IN  Build(1)

\* The "Battery sag" scan: volts = mv / 1000.0 < 3.4.
VoltageSag(t) ==
    IF ~HasField(t, "BATTERY_STATUS", "voltages") THEN <<>>
    ELSE LET mv == GetMsg(t, "BATTERY_STATUS")["voltages"]
             RECURSIVE Build(_)
             Build(i) ==
                 IF i > Len(mv) THEN <<>>
                 ELSE (IF mv[i] < SAG_MILLIVOLTS
                       THEN <<Flag(<<"battery", "voltage">>, i - 1,
                                   <<mv[i], 1000>>, "voltage_sag")>>
                       ELSE <<>>) \o Build(i + 1)
         IN  Build(1)

VibrationAxes == {"vibration_x", "vibration_y", "vibration_z"}

HasVibration(t) ==
    HasMsg(t, "VIBRATION") /\ VibrationAxes \subseteq DOMAIN GetMsg(t, "VIBRATION")

\* Length of rms = sqrt(vx**2 + vy**2 + vz**2); -1 when the three arrays do
\* not broadcast.
VibrationLen(t) ==
    LET v  == GetMsg(t, "VIBRATION")
        n1 == BroadcastLen(Len(v["vibration_x"]), Len(v["vibration_y"]))
    IN  IF n1 < 0 THEN -1 ELSE BroadcastLen(n1, Len(v["vibration_z"]))

\* The "High vibration" scan, for arrays that broadcast.
HighVibration(t) ==
    IF ~HasVibration(t) THEN <<>>
    ELSE IF Len(GetMsg(t, "VIBRATION")["vibration_x"]) = 0 THEN <<>>
    ELSE LET v == GetMsg(t, "VIBRATION")
             sq(i) == Bc(v["vibration_x"], i) * Bc(v["vibration_x"], i)
                      + Bc(v["vibration_y"], i) * Bc(v["vibration_y"], i)
                      + Bc(v["vibration_z"], i) * Bc(v["vibration_z"], i)
             RECURSIVE Build(_)
             Build(i) ==
                 IF i > VibrationLen(t) THEN <<>>
                 ELSE (IF sq(i) > MAX_VIBRATION * MAX_VIBRATION
                       THEN <<Flag(<<"vibration", "rms">>, i - 1,
                                   <<Isqrt(sq(i)), 1>>, "high_vibration")>>
                       ELSE <<>>) \o Build(i + 1)
         IN  Build(1)

\* A variant that runs the battery scan before the satellite scan.
HighlightBatteryFirst(t) ==
    IF HasVibration(t) /\ Len(GetMsg(t, "VIBRATION")["vibration_x"]) > 0
          /\ VibrationLen(t) < 0
    THEN RRaise
    ELSE [kind |-> "flags",
          v |-> ZScan(t, "ATTITUDE", "attitude", <<"roll", "pitch", "yaw">>)
                \o ZScan(t, "GLOBAL_POSITION_INT", "position",
                         <<"alt", "relative_alt", "vx", "vy", "vz">>)
                \o VoltageSag(t)
                \o LowSatellites(t)
                \o HighVibration(t)]

\* highlight_anomalies(telemetry): [kind |-> "flags", v |-> the list], or
\* "raise" when the vibration arrays do not broadcast (nothing catches the
\* ValueError).
highlight_anomalies(t) ==
    IF HasVibration(t) /\ Len(GetMsg(t, "VIBRATION")["vibration_x"]) > 0
          /\ VibrationLen(t) < 0
    THEN RRaise
    ELSE [kind |-> "flags",
          v |-> ZScan(t, "ATTITUDE", "attitude", <<"roll", "pitch", "yaw">>)
                \o ZScan(t, "GLOBAL_POSITION_INT", "position",
                         <<"alt", "relative_alt", "vx", "vy", "vz">>)
                \o LowSatellites(t)
                \o VoltageSag(t)
                \o HighVibration(t)]

\* Bounded telemetry for highlight_anomalies: any ATTITUDE.roll series of at
\* most MaxZLen samples over {0, 100}; a position message or none; satellite
\* counts around the floor of 6; a battery message or none; vibration arrays
\* of equal or of different lengths, or none.
MaxZLen == 7

MaxSatLen == 2

ZSeqs == SeqsUpTo({0, 100}, MaxZLen)

SpikeSeq == <<0, 0, 0, 0, 0, 100>>

SatSeqs == SeqsUpTo({5, 6}, MaxSatLen) \cup {<<8, 8, 3, 8>>, <<4, 5, 3>>}

\* Two spikes among fifteen samples: both exceed the 2.5 threshold.
TwoSpikes == <<0, 0, 0, 100, 0, 0, 0, 0, 0, 0, 100, 0, 0, 0, 0>>

AnomAttitude ==
    {[roll |-> z] : z \in ZSeqs}
    \cup { [roll |-> <<0, 0, 0, 0, 0, 0, 0, 100>>, yaw |-> TwoSpikes] }

AnomPosition ==
    { [alt |-> SpikeSeq, vx |-> <<0, 0, 0, 0, 0, 0, 0, 100>>, vy |-> <<3, 3>>] }

AnomGps == {[satellites_visible |-> q] : q \in SatSeqs}

AnomBattery == { [voltages |-> <<3399, 3400, 4100>>] }

AnomVibration ==
    { [vibration_x |-> <<0, 20, 0>>, vibration_y |-> <<0, 20, 0>>,
       vibration_z |-> <<31, 10, 30>>],
      [vibration_x |-> <<0, 0, 0>>, vibration_y |-> <<0, 0>>,
       vibration_z |-> <<31, 31, 31>>] }

AnomMessageMaps ==
    {BuildMessages(o) :
       o \in [ATTITUDE : MsgOptions(AnomAttitude),
              GLOBAL_POSITION_INT : MsgOptions(AnomPosition),
              GPS_RAW_INT : MsgOptions(AnomGps),
              BATTERY_STATUS : MsgOptions(AnomBattery),
              VIBRATION : MsgOptions(AnomVibration)]}

AnomTeleSet == {[messages |-> m] : m \in AnomMessageMaps} \cup {EmptyDict}

InitAnom ==
    /\ tele \in AnomTeleSet
    /\ mode = "tele"
    /\ flags = [kind |-> "pending"]
    /\ metrics = None
    /\ tree = None /\ fields = None /\ resolved = None
    /\ rawParts = None /\ raw = None /\ parsed = None
    /\ extraction = None
    /\ tailed = None
    /\ prompt = None

\* flags = highlight_anomalies(tele)
DoHighlight ==
    /\ mode = "tele"
    /\ flags' = highlight_anomalies(tele)
    /\ mode' = "flags"
    /\ UNCHANGED <<convVars, routeVars, tailed, prompt, extraction, tele, metrics, tree,
                   fields, resolved, rawParts, raw, parsed>>

NextAnom == DoHighlight

InitAnomSpec == InitConv /\ InitRoute /\ InitAnom

SpecAnom == InitAnomSpec /\ [][NextAnom]_vars

\* The channels the z-score scan reads: <<message type, feature prefix, field>>.
ZChannels ==
    {<<"ATTITUDE", "attitude", f>> : f \in {"roll", "pitch", "yaw"}}
    \cup {<<"GLOBAL_POSITION_INT", "position", f>> :
            f \in {"alt", "relative_alt", "vx", "vy", "vz"}}

ZFlagsOf(c) ==
    SelectSeq(flags.v, LAMBDA f : f.pattern = "z-score" /\ f.feature = <<c[2], c[3]>>)

HoldsSeq(c, q) == HasField(tele, c[1], c[3]) /\ GetMsg(tele, c[1])[c[3]] = q

\* No test of the model's inputs falls on the boundary z = 2.5, where the
\* 1e-6 term and the float32 rounding would decide.
ZScoreIsExact ==
    mode = "flags" =>
        \A c \in ZChannels : HasField(tele, c[1], c[3]) =>
            LET arr == GetMsg(tele, c[1])[c[3]]
            IN  \A i \in 1..Len(arr) :
                   ScaledVariance(arr) > 0
                      => 4 * Deviation(arr, i) * Deviation(arr, i)
                            # 25 * ScaledVariance(arr)

\* C4 as stated: the z-score scan of a channel holding [0,0,0,0,0,100] flags
\* index 5 and no other index.
C4_Original ==
    mode = "flags" /\ flags.kind = "flags" =>
        \A c \in ZChannels : HoldsSeq(c, SpikeSeq) =>
            /\ Len(ZFlagsOf(c)) = 1
            /\ ZFlagsOf(c)[1].index = 5

\* C4 (amended): the z-score scan of a channel holding [0,0,0,0,0,100] flags
\* no index at all: the z-score of index 5 is sqrt(5), below 2.5.
C4_SpikeOfSixNotFlagged ==
    mode = "flags" /\ flags.kind = "flags" =>
        \A c \in ZChannels : HoldsSeq(c, SpikeSeq) => ZFlagsOf(c) = <<>>

\* The scan has run on two channels holding [0,0,0,0,0,100] and flagged
\* neither, while it did flag index 7 of a channel of eight samples.
C4_Witness ==
    /\ mode = "flags" /\ flags.kind = "flags"
    /\ HoldsSeq(<<"ATTITUDE", "attitude", "roll">>, SpikeSeq)
    /\ HoldsSeq(<<"GLOBAL_POSITION_INT", "position", "alt">>, SpikeSeq)
    /\ Len(ZFlagsOf(<<"GLOBAL_POSITION_INT", "position", "vx">>)) = 1
    /\ ZFlagsOf(<<"GLOBAL_POSITION_INT", "position", "vx">>)[1].index = 7
    /\ flags.v = ZFlagsOf(<<"GLOBAL_POSITION_INT", "position", "vx">>)

LowFlags == SelectSeq(flags.v, LAMBDA f : f.pattern = "low_satellites")

\* C5: the low_satellites flags are exactly one flag per index whose sample is
\* strictly below 6, carrying that index and that sample, and none for a
\* sample of 6 or more; [8,8,3,8] gives exactly one, index 2 and value 3.
C5_LowSatellites ==
    mode = "flags" /\ flags.kind = "flags" =>
        IF HasField(tele, "GPS_RAW_INT", "satellites_visible")
        THEN LET sats == GetMsg(tele, "GPS_RAW_INT")["satellites_visible"]
             IN  /\ \A j \in 1..Len(LowFlags) :
                       /\ LowFlags[j].index \in 0..(Len(sats) - 1)
                       /\ sats[LowFlags[j].index + 1] < 6
                       /\ LowFlags[j].value = <<sats[LowFlags[j].index + 1], 1>>
                       /\ LowFlags[j].feature = <<"gps", "satellites_visible">>
                 /\ \A i \in 1..Len(sats) :
                       Cardinality({j \in 1..Len(LowFlags) : LowFlags[j].index = i - 1})
                          = IF sats[i] < 6 THEN 1 ELSE 0
                 /\ sats = <<8, 8, 3, 8>> =>
                       /\ Len(LowFlags) = 1
                       /\ LowFlags[1].index = 2
                       /\ LowFlags[1].value = <<3, 1>>
        ELSE LowFlags = <<>>

\* The scan has run on [8,8,3,8] beside other flagged channels.
C5_Witness ==
    /\ mode = "flags" /\ flags.kind = "flags"
    /\ HoldsSeq(<<"GPS_RAW_INT", "gps", "satellites_visible">>, <<8, 8, 3, 8>>)
    /\ Len(LowFlags) = 1
    /\ LowFlags[1].index = 2
    /\ Len(flags.v) > 1

\* The flags each scan finds on the tree, its message type being present.
ScanFlags(t) ==
    Range(ZScan(t, "ATTITUDE", "attitude", <<"roll", "pitch", "yaw">>))
    \cup Range(ZScan(t, "GLOBAL_POSITION_INT", "position",
                     <<"alt", "relative_alt", "vx", "vy", "vz">>))
    \cup Range(LowSatellites(t))
    \cup Range(VoltageSag(t))

\* C13: the scans are independent: the flags of the z-score, low-satellites
\* and battery-sag scans are in the output of highlight_anomalies whatever
\* the other message types (VIBRATION among them) hold.
C13_ScansIndependent ==
    mode = "flags" /\ ScanFlags(tele) # {} =>
        /\ flags.kind = "flags"
        /\ ScanFlags(tele) \subseteq Range(flags.v)

\* The features in the order the scans run.
ScanOrder ==
    << <<"attitude", "roll">>, <<"attitude", "pitch">>, <<"attitude", "yaw">>,
       <<"position", "alt">>, <<"position", "relative_alt">>,
       <<"position", "vx">>, <<"position", "vy">>, <<"position", "vz">>,
       <<"gps", "satellites_visible">>, <<"battery", "voltage">>,
       <<"vibration", "rms">> >>

\* The pattern each feature is flagged with.
PatternOf(feature) ==
    IF feature[1] \in {"attitude", "position"} THEN "z-score"
    ELSE IF feature[1] = "gps" THEN "low_satellites"
    ELSE IF feature[1] = "battery" THEN "voltage_sag"
    ELSE "high_vibration"

ScanRank(feature) == CHOOSE k \in 1..Len(ScanOrder) : ScanOrder[k] = feature

\* C21: the flags are in detector execution order: z-score flags (attitude
\* roll, pitch, yaw, then position alt, relative_alt, vx, vy, vz) before
\* low_satellites flags before voltage_sag flags before high_vibration
\* flags, and the flags of one feature in increasing index order.
C21_FlagsInScanOrder ==
    mode = "flags" /\ flags.kind = "flags" =>
        /\ \A i \in 1..Len(flags.v) :
              /\ \E k \in 1..Len(ScanOrder) : ScanOrder[k] = flags.v[i].feature
              /\ flags.v[i].pattern = PatternOf(flags.v[i].feature)
        /\ \A i, j \in 1..Len(flags.v) :
              i < j =>
                  \/ ScanRank(flags.v[i].feature) < ScanRank(flags.v[j].feature)
                  \/ /\ flags.v[i].feature = flags.v[j].feature
                     /\ flags.v[i].index < flags.v[j].index

\* Flags of every scan, of two z-score features, two flags of one feature,
\* and a flag that comes after a less severe one (5 satellites, then 3).
C21_Witness ==
    /\ mode = "flags" /\ flags.kind = "flags"
    /\ {flags.v[i].pattern : i \in 1..Len(flags.v)}
          = {"z-score", "low_satellites", "voltage_sag", "high_vibration"}
    /\ \E i, j \in 1..Len(flags.v) :
          /\ flags.v[i].feature = <<"attitude", "yaw">>
          /\ flags.v[j].feature = <<"position", "vx">>
    /\ \E i, j \in 1..Len(flags.v) :
          /\ i < j
          /\ flags.v[i].feature = <<"attitude", "yaw">>
          /\ flags.v[j].feature = <<"attitude", "yaw">>
    /\ \E i, j \in 1..Len(flags.v) :
          /\ i < j
          /\ flags.v[i].pattern = "low_satellites"
          /\ flags.v[j].pattern = "low_satellites"
          /\ flags.v[i].index < flags.v[j].index
          /\ flags.v[i].value[1] > flags.v[j].value[1]

\* The z-score scan alone: one channel of up to MaxScanLen samples drawn
\* from ScanValues, scanned by highlight_anomalies.
MaxScanLen == 7

ScanValues == {0, 1, 3, 100}

ScanChannels ==
    {<<"ATTITUDE", "attitude", "pitch">>,
     <<"GLOBAL_POSITION_INT", "position", "vz">>}

ScanTele(c, q) ==
    [messages |-> [m \in {c[1]} |-> [f \in {c[3]} |-> q]]]

InitScan ==
    /\ tele \in {ScanTele(c, q) : c \in ScanChannels,
                                  q \in SeqsUpTo(ScanValues, MaxScanLen)}
    /\ mode = "tele"
    /\ flags = [kind |-> "pending"]
    /\ metrics = None
    /\ tree = None /\ fields = None /\ resolved = None
    /\ rawParts = None /\ raw = None /\ parsed = None
    /\ extraction = None
    /\ tailed = None
    /\ prompt = None

InitScanSpec == InitConv /\ InitRoute /\ InitScan

SpecScan == InitScanSpec /\ [][NextAnom]_vars

AllEqual(arr) == \A i, j \in 1..Len(arr) : arr[i] = arr[j]

----------------------------------------------------------------------------
(* analysis/data_extractor.py: discover_fields and extract_value           *)
(*                                                                         *)
(* A JSON value is [t |-> "dict", kv |-> key -> value],                    *)
(* [t |-> "list", items |-> sequence of values], [t |-> "leaf", val] (a    *)
(* number) or [t |-> "null"] (None).  A string that may hold dots is the   *)
(* sequence of its dot-free parts: the key "a.b" is <<"a", "b">>, the key  *)
(* "a" is <<"a">> and the empty string is <<"">>, so that joining with "." *)
(* is concatenation and path.split('.') is the sequence itself.            *)

Null == [t |-> "null"]

Leaf(v) == [t |-> "leaf", val |-> v]

List(items) == [t |-> "list", items |-> items]

Dict(kv) == [t |-> "dict", kv |-> kv]

EmptyString == <<"">>

\* f"{prefix}.{k}" if prefix else k
JoinPath(prefix, k) == IF prefix = EmptyString THEN k ELSE prefix \o k

\* The list branch of discover_fields: a non-empty list whose first element is
\* a dict or a list.
DescendsList(n) ==
    n.t = "list" /\ n.items # <<>> /\ n.items[1].t \in {"dict", "list"}

\* discover_fields(data, prefix)
RECURSIVE discover_fields(_, _)
discover_fields(data, prefix) ==
    IF data.t = "dict" THEN
        UNION { {JoinPath(prefix, k)}
                  \cup discover_fields(data.kv[k], JoinPath(prefix, k)) :
                k \in DOMAIN data.kv }
    ELSE IF DescendsList(data) THEN discover_fields(data.items[1], prefix)
    ELSE {}

\* extract_value(data, path) from the i-th part of the path on; None is Null.
RECURSIVE ExtractFrom(_, _, _)
ExtractFrom(current, path, i) ==
    IF i > Len(path) THEN current
    ELSE IF current.t = "dict"
         THEN ExtractFrom(
                  IF <<path[i]>> \in DOMAIN current.kv
                  THEN current.kv[<<path[i]>>] ELSE Null,
                  path, i + 1)
         ELSE Null

extract_value(data, path) == ExtractFrom(data, path, 1)

\* Ghost: the node at which discover_fields added each path.
RECURSIVE DiscoveredNodes(_, _)
DiscoveredNodes(data, prefix) ==
    IF data.t = "dict" THEN
        UNION { {<<JoinPath(prefix, k), data.kv[k]>>}
                  \cup DiscoveredNodes(data.kv[k], JoinPath(prefix, k)) :
                k \in DOMAIN data.kv }
    ELSE IF DescendsList(data) THEN DiscoveredNodes(data.items[1], prefix)
    ELSE {}

\* Bounded trees: leaves, dicts of leaves, lists of records, and dicts of
\* those under the root keys "a" and "a.b".
LeafNodes ==
    {Leaf(1), Null, List(<<Leaf(1), Leaf(2)>>), List(<<>>)}

DictsOver(keys, values) ==
    {Dict(f) : f \in UNION {[K -> values] : K \in SUBSET keys}}

InnerDicts == DictsOver({<<"b">>, <<"">>}, LeafNodes)

InnerNodes ==
    LeafNodes \cup InnerDicts
    \cup {List(<<d, Dict(EmptyDict)>>) : d \in InnerDicts}
    \cup {List(<<List(<<d>>)>>) : d \in {Dict([k \in {<<"b">>} |-> Leaf(1)])}}

\* A dict three levels deep: the paths "a", "a.b" and "a.b.b".
DeepTree ==
    Dict([k \in {<<"a">>} |->
            Dict([j \in {<<"b">>} |-> Dict([l \in {<<"b">>} |-> Leaf(2)])])])

TreeSet == DictsOver({<<"a">>, <<"a", "b">>}, InnerNodes) \cup {DeepTree}

InitTree ==
    /\ tree \in TreeSet
    /\ mode = "tree"
    /\ fields = {}
    /\ resolved = EmptyDict
    /\ tele = None /\ metrics = None /\ flags = None
    /\ rawParts = None /\ raw = None /\ parsed = None
    /\ extraction = None
    /\ tailed = None
    /\ prompt = None

\* fields = discover_fields(tree), then extract_value(tree, p) for each.
DoDiscover ==
    /\ mode = "tree"
    /\ fields' = discover_fields(tree, EmptyString)
    /\ resolved' = [p \in discover_fields(tree, EmptyString) |-> extract_value(tree, p)]
    /\ mode' = "fields"
    /\ UNCHANGED <<convVars, routeVars, tailed, prompt, extraction, tele, metrics, flags,
                   tree, rawParts, raw, parsed>>

\* Similarities are kept in hundredths: `threshold: float = 0.25`.
THRESHOLD == 25

\* `k=top_k * 3`: the pool _top_k_matches is asked for.
POOL_FACTOR == 3

\* s[:k] for k >= 0.
Take(s, k) == SubSeq(s, 1, Min2(k, Len(s)))

\* zip(field_paths, sims)
Zip(paths, sims) ==
    [i \in 1..Len(paths) |-> [path |-> paths[i], score |-> sims[i]]]

\* sorted(..., key=lambda x: x[1], reverse=True): the sort is stable, equal
\* scores keep the order of the list.
RECURSIVE SortedDesc(_)
SortedDesc(s) ==
    IF s = <<>> THEN <<>>
    ELSE LET rest == SortedDesc(SubSeq(s, 1, Len(s) - 1))
             x == s[Len(s)]
             n == Cardinality({i \in 1..Len(rest) : rest[i].score >= x.score})
         IN  SubSeq(rest, 1, n) \o <<x>> \o SubSeq(rest, n + 1, Len(rest))

\* A variant without the similarity floor.
TopKNoFloor(paths, sims, k, threshold) ==
    IF paths = <<>> THEN <<>> ELSE Take(SortedDesc(Zip(paths, sims)), k)

\* _top_k_matches(question, field_paths, k, threshold), the similarities
\* being those of the question to each field path.
top_k_matches(paths, sims, k, threshold) ==
    IF paths = <<>> THEN <<>>
    ELSE Take(SortedDesc(SelectSeq(Zip(paths, sims),
                                   LAMBDA x : x.score >= threshold)), k)

\* extract_relevant_data without rerank: `reranked = top_fields[:top_k]`.
Reranked(top_fields, top_k) == Take(top_fields, top_k)

\* An exception ends the reconstruction.
Raised == [t |-> "raise"]

\* d[key] = value
SetKey(kv, key, value) ==
    [x \in DOMAIN kv \cup {key} |-> IF x = key THEN value ELSE kv[x]]

\* `current = current.setdefault(part, {})` for the parts before the last,
\* then `current[parts[-1]] = value`: the dict `current` becomes.  Calling
\* setdefault or assigning a key on something that is no dict raises.
RECURSIVE SetPath(_, _, _, _)
SetPath(current, parts, i, value) ==
    IF current.t # "dict" THEN Raised
    ELSE LET key == <<parts[i]>>
         IN  IF i = Len(parts)
             THEN Dict(SetKey(current.kv, key, value))
             ELSE LET child == IF key \in DOMAIN current.kv
                               THEN current.kv[key] ELSE Dict(EmptyDict)
                      sub == SetPath(child, parts, i + 1, value)
                  IN  IF sub.t = "raise" THEN Raised
                      ELSE Dict(SetKey(current.kv, key, sub))

\* `selected` shares objects with the telemetry: `current[parts[-1]] = value`
\* stores the very dict or list extract_value found, not a copy.  Ref(at) is
\* the telemetry's object at the key path `at`; numbers and None are stored
\* as they are.
Ref(at) == [t |-> "ref", at |-> at]

Stored(value, parts) ==
    IF value.t \in {"dict", "list"} THEN Ref(parts) ELSE value

\* The tree a node of `selected` stands for, given the telemetry.
RECURSIVE Deref(_, _)
Deref(tel, node) ==
    IF node.t = "ref" THEN extract_value(tel, node.at)
    ELSE IF node.t = "dict"
         THEN Dict([k \in DOMAIN node.kv |-> Deref(tel, node.kv[k])])
         ELSE node

\* The telemetry with the object at the key path `at` replaced by `sub`.
RECURSIVE ReplaceAt(_, _, _, _)
ReplaceAt(tel, at, i, sub) ==
    IF i > Len(at) THEN sub
    ELSE Dict(SetKey(tel.kv, <<at[i]>>,
                     ReplaceAt(tel.kv[<<at[i]>>], at, i + 1, sub)))

\* The setdefault walk and the final assignment from a node of `selected`
\* on: a dict made by setdefault is written in place; when the walk reaches
\* an object of the telemetry, setdefault and the assignment write into the
\* telemetry itself.  The result holds the telemetry and the node afterwards.
RECURSIVE SetShared(_, _, _, _, _)
SetShared(tel, node, parts, i, value) ==
    IF node.t = "ref" THEN
        LET sub == SetPath(extract_value(tel, node.at), parts, i,
                           Deref(tel, value))
        IN  IF sub.t = "raise" THEN [t |-> "raise", tel |-> tel]
            ELSE [t |-> "ok", tel |-> ReplaceAt(tel, node.at, 1, sub),
                  node |-> node]
    ELSE IF node.t # "dict" THEN [t |-> "raise", tel |-> tel]
    ELSE LET key == <<parts[i]>>
         IN  IF i = Len(parts)
             THEN [t |-> "ok", tel |-> tel,
                   node |-> Dict(SetKey(node.kv, key, value))]
             ELSE LET child == IF key \in DOMAIN node.kv
                               THEN node.kv[key] ELSE Dict(EmptyDict)
                      r == SetShared(tel, child, parts, i + 1, value)
                  IN  IF r.t = "raise" THEN r
                      ELSE [t |-> "ok", tel |-> r.tel,
                            node |-> Dict(SetKey(node.kv, key, r.node))]

\* A variant of the loop body that does not skip a path whose value is None.
ReconstructStepKeepNone(st, path) ==
    IF st.t = "raise" THEN st
    ELSE SetShared(st.tel, st.node, path, 1,
                   Stored(extract_value(st.tel, path), path))

\* One pass of the loop body for `path`: a path whose value is None is
\* skipped.
ReconstructStep(st, path) ==
    LET value == extract_value(st.tel, path)
    IN  IF st.t = "raise" \/ value.t = "null" THEN st
        ELSE SetShared(st.tel, st.node, path, 1, Stored(value, path))

\* The loop that builds `selected` from the first n entries of `reranked`:
\* the telemetry and `selected` after it.
RECURSIVE Reconstruct(_, _, _)
Reconstruct(telemetry, reranked, n) ==
    IF n = 0
    THEN [t |-> "ok", tel |-> telemetry, node |-> Dict(EmptyDict)]
    ELSE ReconstructStep(Reconstruct(telemetry, reranked, n - 1),
                         reranked[n].path)

\* extract_relevant_data(telemetry, question, top_k=top_k) with rerank off,
\* field_paths being list(discover_fields(telemetry)) in some order.  The
\* record holds what it returns (selected) and the telemetry as the call
\* leaves it.
extract_relevant_data(telemetry, paths, sims, top_k) ==
    LET top_fields == top_k_matches(paths, sims, top_k * POOL_FACTOR, THRESHOLD)
        reranked == Reranked(top_fields, top_k)
        built == Reconstruct(telemetry, reranked, Len(reranked))
    IN  [paths |-> paths, sims |-> sims, top_k |-> top_k, pool |-> top_fields,
         reranked |-> reranked,
         telemetry |-> built.tel,
         selected |-> IF built.t = "raise" THEN Raised
                      ELSE Deref(built.tel, built.node)]

\* Largest top_k explored.
MaxTopK == 2

\* Largest number of field paths of a tree handed to extract_relevant_data.
MaxRanked == 3

\* Similarities of the field paths of a tree: below and above the floor.
TreeScores == {10, 30}

\* The orders a set may be listed in.
ListsOf(S) ==
    {q \in [1..Cardinality(S) -> S] :
        \A i, j \in 1..Cardinality(S) : q[i] = q[j] => i = j}

\* extract_relevant_data on the tree, the similarities being some scores.
DoExtract ==
    /\ mode = "fields"
    /\ Cardinality(fields) <= MaxRanked
    /\ \E paths \in ListsOf(fields), top_k \in 1..MaxTopK :
          \E sims \in [1..Len(paths) -> TreeScores] :
              extraction' = extract_relevant_data(tree, paths, sims, top_k)
    /\ mode' = "extracted"
    /\ UNCHANGED <<convVars, routeVars, tailed, prompt, tele, metrics, flags, tree, fields,
                   resolved, rawParts, raw, parsed>>

NextTree == DoDiscover \/ DoExtract

InitTreeSpec == InitConv /\ InitRoute /\ InitTree

SpecTree == InitTreeSpec /\ [][NextTree]_vars

\* Largest number of field paths ranked by SpecRank.
MaxPaths == 5

\* Similarities, 25 being the floor itself.
Scores == {10, 25, 30, 40}

\* A list of field paths (numbered in the order of the list), a similarity
\* for each, and a top_k.
InitRank ==
    /\ mode = "rank"
    /\ \E n \in 0..MaxPaths, top_k \in 1..MaxTopK :
          \E sims \in [1..n -> Scores] :
              extraction = [paths |-> [i \in 1..n |-> i], sims |-> sims,
                            top_k |-> top_k, pool |-> <<>>, reranked |-> <<>>]
    /\ tele = None /\ metrics = None /\ flags = None
    /\ tree = None /\ fields = None /\ resolved = None
    /\ rawParts = None /\ raw = None /\ parsed = None
    /\ tailed = None
    /\ prompt = None

\* extract_relevant_data up to `reranked`, rerank being off.
DoRank ==
    /\ mode = "rank"
    /\ LET top_fields == top_k_matches(extraction.paths, extraction.sims,
                                       extraction.top_k * POOL_FACTOR, THRESHOLD)
       IN  extraction' = [extraction EXCEPT
                            !.pool = top_fields,
                            !.reranked = Reranked(top_fields, extraction.top_k)]
    /\ mode' = "ranked"
    /\ UNCHANGED <<convVars, routeVars, tailed, prompt, tele, metrics, flags, tree, fields,
                   resolved, rawParts, raw, parsed>>

NextRank == DoRank

InitRankSpec == InitConv /\ InitRoute /\ InitRank

SpecRank == InitRankSpec /\ [][NextRank]_vars

\* The field paths a ranked list holds.
PathsOf(ranked) == {ranked[i].path : i \in 1..Len(ranked)}

\* C19: without reranking, extract_relevant_data selects only field paths
\* whose similarity to the question is at least the floor, selects at most
\* top_k of them, and never leaves out a path strictly more similar than one
\* it selects; the pool it truncates holds at most 3 * top_k paths, in
\* descending order of similarity.
C19_SelectsMostSimilar ==
    mode = "ranked" =>
        LET e == extraction
            chosen == PathsOf(e.reranked)
        IN  /\ \A p \in chosen : e.sims[p] >= THRESHOLD
            /\ \A i \in 1..Len(e.reranked) :
                  e.reranked[i].score = e.sims[e.reranked[i].path]
            /\ Cardinality(chosen) = Len(e.reranked)
            /\ Len(e.reranked) <= e.top_k
            /\ \A p \in chosen : \A q \in 1..Len(e.paths) :
                  e.sims[q] > e.sims[p] => q \in chosen
            /\ Len(e.pool) <= POOL_FACTOR * e.top_k
            /\ \A i, j \in 1..Len(e.pool) :
                  i < j => e.pool[i].score >= e.pool[j].score
            /\ e.reranked = Take(e.pool, e.top_k)

\* Five paths, four of them at or above the floor and one below: the pool
\* keeps three, the last of them just at the floor, and top_k = 1 selects
\* the most similar one.
C19_Witness ==
    /\ mode = "ranked"
    /\ extraction.top_k = 1
    /\ Len(extraction.paths) = 5
    /\ Cardinality({i \in 1..5 : extraction.sims[i] >= THRESHOLD}) = 4
    /\ Len(extraction.pool) = 3
    /\ extraction.pool[3].score = 25
    /\ Len(extraction.reranked) = 1
    /\ extraction.reranked[1].score = 40

\* A leaf: a number or a list that discover_fields does not descend into.
IsValueLeaf(n) == n.t = "leaf" \/ (n.t = "list" /\ ~DescendsList(n))

\* C6: every path that discover_fields returns for a leaf holding a non-null
\* value resolves to a non-null value through extract_value on the same tree.
C6_RoundTrip ==
    mode = "fields" =>
        \A pn \in DiscoveredNodes(tree, EmptyString) :
            IsValueLeaf(pn[2]) => resolved[pn[1]] # Null

\* The key paths of a nested mapping, each the parts of its keys from the
\* root down.
RECURSIVE KeyPathsOf(_, _)
KeyPathsOf(node, prefix) ==
    IF node.t = "dict"
    THEN UNION { {prefix \o k} \cup KeyPathsOf(node.kv[k], prefix \o k) :
                 k \in DOMAIN node.kv }
    ELSE {}

\* kp is p or a prefix of p.
LeadsTo(kp, p) == Len(kp) <= Len(p) /\ kp = SubSeq(p, 1, Len(kp))

\* C20: the nested mapping extract_relevant_data returns holds only the
\* selected field paths: each of its key paths is a selected path or a
\* prefix of one, so that a field that was not selected does not appear,
\* and a selected path whose value resolves to nothing is not among them.
C20_OnlySelectedPaths ==
    mode = "extracted" =>
        LET chosen == PathsOf(extraction.reranked)
            keyPaths == KeyPathsOf(extraction.selected, <<>>)
        IN  /\ extraction.selected.t = "dict"
            /\ \A kp \in keyPaths : \E p \in chosen : LeadsTo(kp, p)
            /\ \A p \in chosen :
                  extract_value(tree, p).t = "null" => p \notin keyPaths

\* Every value of `sel` is the value `tel` holds at the same key path: a
\* node of `sel` is the node of `tel`, or a dict whose keys are keys of the
\* dict of `tel` and whose values are so in turn.
RECURSIVE HoldsValuesOf(_, _)
HoldsValuesOf(sel, tel) ==
    /\ sel.t = tel.t
    /\ \/ sel = tel
       \/ /\ sel.t = "dict"
          /\ DOMAIN sel.kv \subseteq DOMAIN tel.kv
          /\ \A k \in DOMAIN sel.kv : HoldsValuesOf(sel.kv[k], tel.kv[k])

\* C30: extract_relevant_data leaves the telemetry tree as it was given,
\* whichever paths are selected and in whichever order they are processed,
\* and every value of the mapping it returns is the value the telemetry
\* holds at the same key path.
C30_TelemetryUnchanged ==
    mode = "extracted" =>
        /\ extraction.telemetry = tree
        /\ extraction.selected.t = "dict"
        /\ HoldsValuesOf(extraction.selected, tree)

\* A mapping path was processed before a path beneath it: "a", whose value
\* is a dict of the telemetry, then "a.b", written through that dict.
C30_Witness ==
    /\ mode = "extracted"
    /\ Len(extraction.reranked) = 2
    /\ extraction.reranked[1].path = <<"a">>
    /\ extraction.reranked[2].path = <<"a", "b">>
    /\ extract_value(tree, <<"a", "b">>).t = "dict"
    /\ extraction.selected = tree

----------------------------------------------------------------------------
(* chat/prompt.py, chat/processor.py: _inject_history                      *)
(*                                                                         *)
(* A prompt is a sequence of tokens: "SYS" is the instruction text of a    *)
(* builder, "CTX" the metrics and field samples of the metric prompt, "UQ" *)
(* the literal text "User question:", "##" the header line "## Recent      *)
(* conversation (last 3 turns):", "User:" and "Assistant:" the capitalized *)
(* role and its colon, "NL" a line break, "SP" a blank and "w" a word.     *)
(* Neither instruction text holds "User question:".  The content of a turn *)
(* and a question are token sequences too.                                 *)

\* build_general_prompt(question)
build_general_prompt(question) == <<"SYS", "NL", "NL", "UQ", "SP">> \o question

\* build_metric_prompt(question, extracted, metrics)
build_metric_prompt(question) ==
    <<"SYS", "NL", "NL", "CTX", "NL", "NL", "UQ", "SP">> \o question

\* f"{msg['role'].capitalize()}: {msg['content']}"
TurnLine(msg) ==
    <<IF msg.role = "user" THEN "User:" ELSE "Assistant:", "SP">> \o msg.content

\* "\n".join(lines) for lines = [header, the turn lines, ""].
RECURSIVE JoinTurns(_)
JoinTurns(turns) ==
    IF turns = <<>> THEN <<>>
    ELSE TurnLine(Head(turns)) \o <<"NL">> \o JoinTurns(Tail(turns))

HistoryBlock(turns) == <<"##", "NL">> \o JoinTurns(turns)

\* str.replace(old, new) for a one-token `old`: every occurrence is replaced.
RECURSIVE ReplaceAll(_, _, _)
ReplaceAll(text, old, new) ==
    IF text = <<>> THEN <<>>
    ELSE (IF Head(text) = old THEN new ELSE <<Head(text)>>)
         \o ReplaceAll(Tail(text), old, new)

\* _inject_history(prompt), the history being h.
inject_history(text, h) ==
    LET turns == ConvTail(h, TAIL_TURNS)
    IN  IF turns = <<>> THEN text
        ELSE ReplaceAll(text, "UQ", HistoryBlock(turns) \o <<"NL", "UQ">>)

\* Questions and contents of earlier turns, with and without the text
\* "User question:" in them.
InjectTexts == {<<"w">>, <<"UQ", "SP", "w">>}

\* Longest history handed to _inject_history by SpecInject.
MaxInjectLen == 2

\* A history, and the prompt a builder made for a question.
InitInject ==
    /\ \E len \in 0..MaxInjectLen :
          \E roles \in [1..len -> Roles], texts \in [1..len -> InjectTexts] :
              history = [k \in 1..len |-> [role |-> roles[k], content |-> texts[k]]]
    /\ appended = history
    /\ mode = "prompt"
    /\ \E question \in InjectTexts :
          prompt \in {[question |-> question, built |-> b, injected |-> <<>>] :
                        b \in {build_general_prompt(question),
                               build_metric_prompt(question)}}
    /\ tele = None /\ metrics = None /\ flags = None
    /\ tree = None /\ fields = None /\ resolved = None
    /\ rawParts = None /\ raw = None /\ parsed = None
    /\ extraction = None
    /\ tailed = None

\* prompt = _inject_history(prompt)
DoInject ==
    /\ mode = "prompt"
    /\ prompt' = [prompt EXCEPT !.injected = inject_history(prompt.built, history)]
    /\ mode' = "injected"
    /\ UNCHANGED <<convVars, routeVars, tailed, tele, metrics, flags, tree,
                   fields, resolved, rawParts, raw, parsed, extraction>>

NextInject == DoInject

InitInjectSpec == InitRoute /\ InitInject

SpecInject == InitInjectSpec /\ [][NextInject]_vars

\* The text with `piece` put in before position k.
InsertedAt(text, k, piece) ==
    SubSeq(text, 1, k - 1) \o piece \o SubSeq(text, k, Len(text))

\* C26: _inject_history inserts the recent-conversation block exactly once,
\* right before a "User question:" tag of the prompt, whatever the question
\* and the earlier turns hold; the rest of the prompt is unchanged.
C26_BlockInsertedOnce ==
    mode = "injected" /\ history # <<>> =>
        /\ Cardinality(Positions(prompt.injected, "##")) = 1
        /\ \E k \in Positions(prompt.built, "UQ") :
              prompt.injected
                  = InsertedAt(prompt.built, k,
                               HistoryBlock(Suffix(history, 3)) \o <<"NL">>)

----------------------------------------------------------------------------
(* routes/chat.py, routes/analysis.py, chat/processor.py,                  *)
(* analysis/anomalies.py (analyse_query): the request handlers             *)
(*                                                                         *)
(* run.py serves the app with uvicorn: one process, one event loop.  The   *)
(* two endpoints are coroutines (`async def`) that call the synchronous    *)
(* process_chat_request / DataExtractor code without awaiting anything, so *)
(* the loop runs a handler from its first line to its response before it   *)
(* turns to another request; a request that arrives meanwhile waits in its *)
(* connection.  A handler is written here in steps that end at its         *)
(* blocking points, the calls to the embedding, rerank and language-model  *)
(* services; each such call succeeds or fails.  calls[i] lists the         *)
(* external calls made for the request of slot i.  A question is a         *)
(* sequence of tokens: white space ("SP", "NL") and words, of which "fail" *)
(* matches an anomaly pattern and "gps" a UAV pattern.  The content of a   *)
(* turn is [text, by]: the text and (ghost) the request that wrote it.     *)

\* Number of requests the routes handle in one behaviour.
MaxRequests == 2

Questions == {<<>>, <<"SP", "NL">>, <<"hi">>, <<"SP", "gps">>, <<"fail">>}

Hints == {<<>>, <<"gps">>}

\* {"messages": {}}: a tree that is not empty and has no field.
NoMessagesTele == [messages |-> EmptyDict]

GpsTele == [messages |-> [GPS_RAW_INT |-> [satellites_visible |-> <<8, 8, 3, 8>>]]]

BadVibrationTele ==
    [messages |-> [VIBRATION |-> [vibration_x |-> <<0, 0, 0>>,
                                  vibration_y |-> <<0, 0>>,
                                  vibration_z |-> <<31, 31, 31>>]]]

\* The telemetry of a request body: the field left out, or a tree.
NoTelemetry == [given |-> FALSE, tree |-> EmptyDict]

Telemetries ==
    {NoTelemetry} \cup {[given |-> TRUE, tree |-> t] :
                          t \in {EmptyDict, NoMessagesTele, GpsTele, BadVibrationTele}}

\* What the language model may answer.
RawAnswers ==
    { <<"w", "SP", "x">>,
      <<"<A>", "NL", "w", "NL", "</A>", "NL", "<S>", "NL", "N.", "SP", "x", "NL",
        "N.", "SP", "w", "NL", "N.", "SP", "x", "NL", "</S>">> }

\* A variant that rejects the empty question only.
IsEmptyQuestion(q) == q = <<>>

\* chat_endpoint: `not req.question.strip()`
IsBlankQuestion(q) == Strip(q) = <<>>

\* is_anomaly_query: some anomaly pattern is found in the question.
is_anomaly_query(q) == Contains(q, "fail")

\* _is_uav_question: some UAV pattern is found in the question.
IsUavQuestion(q) == Contains(q, "gps")

\* `not req.telemetry`: the tree is the empty dict.
IsEmptyTelemetry(t) == DOMAIN t = {}

\* discover_fields on a tree of the shape {"messages": {type: {field: [..]}}}:
\* every key on the way is a path ("messages", "messages.<type>",
\* "messages.<type>.<field>"), kept here as the sequence of its parts.
FieldPaths(t) ==
    IF "messages" \in DOMAIN t
    THEN {<<"messages">>}
         \cup {<<"messages", m>> : m \in DOMAIN t.messages}
         \cup UNION {{<<"messages", m, f>> : f \in DOMAIN t.messages[m]} :
                       m \in DOMAIN t.messages}
    ELSE {}

\* The nested dict extract_relevant_data builds from the paths it kept: each
\* path brings the whole value found under it, and the dicts on its way.
Selected(t, paths) ==
    IF paths = {}
    THEN EmptyDict
    ELSE LET all == <<"messages">> \in paths
             msgs == {m \in DOMAIN t.messages :
                        all \/ \E p \in paths : Len(p) >= 2 /\ p[2] = m}
             fieldsOf(m) == {f \in DOMAIN t.messages[m] :
                               \/ all
                               \/ <<"messages", m>> \in paths
                               \/ <<"messages", m, f>> \in paths}
         IN  [k \in {"messages"} |->
                [m \in msgs |-> [f \in fieldsOf(m) |-> t.messages[m][f]]]]

InitEnv == env \in [cohere : BOOLEAN, groq : BOOLEAN]

InitRequests ==
    /\ InitEnv
    /\ req = [i \in Slots |-> NoReq]
    /\ calls = [i \in Slots |-> <<>>]
    /\ served = 0
    /\ memo = {}

InFlight == {j \in Slots : req[j].pc # "none"}

\* Requests that have reached the server so far.
Arrived == served + Cardinality(InFlight)

\* A variant in which handlers run on a pool of threads: a handler starts
\* whatever the others are doing.
LoopAlwaysFree(i) == TRUE

\* The event loop can start the handler of slot i: it is inside no other
\* handler (chat_endpoint and analysis_endpoint never await).
LoopFree(i) == \A j \in Slots \ {i} : req[j].pc \in {"none", "queued"}

NewReq(r, kind, q, t) ==
    [r EXCEPT !.kind = kind, !.question = q, !.telemetry = t, !.pc = "handler",
              !.hist0 = history]

Fail(r, status, error) == [r EXCEPT !.pc = "done", !.status = status, !.error = error]

\* The content of a turn written by request r.
Turn(text, r) == [text |-> text, by |-> r.rid]

\* A client sends a request: it is in flight from now on, and waits until
\* the event loop gets to it.
Connect(i) ==
    /\ req[i].pc = "none"
    /\ Arrived < MaxRequests
    /\ req' = [j \in Slots |->
                 IF j = i
                 THEN [NoReq EXCEPT !.pc = "queued", !.rid = Arrived + 1,
                                    !.met = {req[k].rid : k \in InFlight}]
                 ELSE IF j \in InFlight
                 THEN [req[j] EXCEPT !.met = @ \cup {Arrived + 1}]
                 ELSE req[j]]
    /\ UNCHANGED <<convVars, pureVars, env, calls, served, memo>>

\* POST /chat with a body {question, telemetry?}: the handler is entered.
ChatArrives(i) ==
    /\ req[i].pc = "queued"
    /\ LoopFree(i)
    /\ \E q \in Questions, t \in Telemetries :
          req' = [req EXCEPT ![i] = NewReq(req[i], "chat", q, t)]
    /\ UNCHANGED <<convVars, pureVars, env, calls, served, memo>>

\* POST /analysis with a body {telemetry, hint?}; the hint stands for the
\* question (`req.hint or ""`).
AnalysisArrives(i) ==
    /\ req[i].pc = "queued"
    /\ LoopFree(i)
    /\ \E h \in Hints, t \in Telemetries :
          req' = [req EXCEPT ![i] = NewReq(req[i], "analysis", h, t)]
    /\ UNCHANGED <<convVars, pureVars, env, calls, served, memo>>

\* chat_endpoint: an empty question is answered 400.
ChatReject(i) ==
    /\ req[i].kind = "chat" /\ req[i].pc = "handler"
    /\ IsBlankQuestion(req[i].question)
    /\ req' = [req EXCEPT ![i] = Fail(@, 400, "Question cannot be empty")]
    /\ UNCHANGED <<convVars, pureVars, env, calls, served, memo>>

\* A variant that takes the turns as they were before the last append.
PromptBeforeLogging(h) ==
    [holds |-> {"question", "history"},
     block |-> ConvTail(SubSeq(h, 1, Len(h) - 1), TAIL_TURNS)]

\* build_general_prompt + _inject_history: the question and the last three
\* turns of the history as it is when the prompt is built.
GeneralPrompt(h) ==
    [holds |-> {"question", "history"}, block |-> ConvTail(h, TAIL_TURNS)]

\* build_metric_prompt + _inject_history.
MetricPrompt(h) ==
    [holds |-> {"question", "metrics", "extracted", "history"},
     block |-> ConvTail(h, TAIL_TURNS)]

\* _build_prompt of analyse_query: no conversation turns.
AnomalyPrompt ==
    [holds |-> {"question", "metrics", "flags", "extracted"}, block |-> <<>>]

\* A variant that does not log the user turn on entry.
LogNothing(h, r) == h

\* conversation_state.append("user", question), the first statement of
\* process_chat_request.
LogUserTurn(h, r) == ConvAppend(h, "user", Turn(r.question, r))

\* chat_endpoint calls process_chat_request: the user turn is logged and the
\* path chosen (anomaly fast-path, metric Q&A or general chat); the general
\* prompt is built at once.
ChatAccept(i) ==
    /\ req[i].kind = "chat" /\ req[i].pc = "handler"
    /\ ~IsBlankQuestion(req[i].question)
    /\ LET h2 == LogUserTurn(history, req[i])
       IN  /\ history' = h2
           /\ req' = [req EXCEPT ![i] =
                IF @.telemetry.given /\ is_anomaly_query(@.question)
                THEN [@ EXCEPT !.pc = "extractor", !.path = "anomaly", !.rerank = TRUE]
                ELSE IF @.telemetry.given /\ IsUavQuestion(@.question)
                THEN [@ EXCEPT !.pc = "extractor", !.path = "metric", !.rerank = TRUE]
                ELSE [@ EXCEPT !.pc = "llm", !.path = "general",
                               !.prompt = GeneralPrompt(h2)]]
    /\ UNCHANGED <<appended, pureVars, env, calls, served, memo>>

\* AnalysisRequest declares telemetry as a required field: a body without it
\* is answered 422 by the schema validation, before analysis_endpoint runs.
AnalysisInvalid(i) ==
    /\ req[i].kind = "analysis" /\ req[i].pc = "handler"
    /\ ~req[i].telemetry.given
    /\ req' = [req EXCEPT ![i] = Fail(@, 422, "field required")]
    /\ UNCHANGED <<convVars, pureVars, env, calls, served, memo>>

\* analysis_endpoint: `not req.telemetry` is answered 400.
AnalysisReject(i) ==
    /\ req[i].kind = "analysis" /\ req[i].pc = "handler"
    /\ req[i].telemetry.given /\ IsEmptyTelemetry(req[i].telemetry.tree)
    /\ req' = [req EXCEPT ![i] = Fail(@, 400, "Telemetry payload missing")]
    /\ UNCHANGED <<convVars, pureVars, env, calls, served, memo>>

\* analysis_endpoint goes on to the extractor (top_k = 25, no rerank).
AnalysisAccept(i) ==
    /\ req[i].kind = "analysis" /\ req[i].pc = "handler"
    /\ req[i].telemetry.given /\ ~IsEmptyTelemetry(req[i].telemetry.tree)
    /\ req' = [req EXCEPT ![i] = [@ EXCEPT !.pc = "extractor", !.path = "analysis"]]
    /\ UNCHANGED <<convVars, pureVars, env, calls, served, memo>>

\* DataExtractor(): RuntimeError without COHERE_API_KEY; otherwise a new
\* instance (numbered as its request).  Then extract_relevant_data up to
\* its first external call: with no field path _top_k_matches returns []
\* and nothing is embedded or reranked.
ExtractorInit(i) ==
    /\ req[i].pc = "extractor"
    /\ req' = [req EXCEPT ![i] =
                 IF ~env.cohere
                 THEN Fail(@, 500, "COHERE_API_KEY environment variable not set.")
                 ELSE IF FieldPaths(@.telemetry.tree) # {}
                 THEN [@ EXCEPT !.pc = "embed_question", !.extractor = req[i].rid]
                 ELSE [@ EXCEPT !.pc = "extracted", !.extractor = req[i].rid]]
    /\ UNCHANGED <<convVars, pureVars, env, calls, served, memo>>

\* The subsets of the paths a service's scores may single out, as far as
\* they are told apart here: none, one path, or all of them.
ServiceChoices(paths) == {c \in SUBSET paths : Cardinality(c) <= 1 \/ c = paths}

\* The lru_cache of _embed_batch holds the batch `texts` of instance `self`.
Memoized(self, texts) == <<self, texts>> \in memo

\* _embed_batch((question,)): served from the cache, or one call to the
\* embedding service, whose result is cached when it succeeds.
EmbedQuestion(i) ==
    /\ req[i].pc = "embed_question"
    /\ LET texts == {req[i].question}
       IN  IF Memoized(req[i].extractor, texts)
           THEN /\ req' = [req EXCEPT ![i].pc = "embed_fields"]
                /\ UNCHANGED <<calls, memo>>
           ELSE /\ calls' = [calls EXCEPT ![i] = Append(@, "embed")]
                /\ \/ /\ req' = [req EXCEPT ![i].pc = "embed_fields"]
                      /\ memo' = memo \cup {<<req[i].extractor, texts>>}
                   \/ /\ req' = [req EXCEPT ![i] = Fail(@, 500, "embedding call failed")]
                      /\ UNCHANGED memo
    /\ UNCHANGED <<convVars, pureVars, env, served>>

\* What follows the second embedding: the candidates at or above the
\* similarity floor, which may be none (the scores are the service's).
\* Rerank runs when it was asked for and there is a candidate.
Candidates(r, candidates) ==
    IF r.rerank /\ candidates # {}
    THEN [r EXCEPT !.pc = "rerank", !.selected = candidates]
    ELSE [r EXCEPT !.pc = "extracted", !.selected = candidates]

\* _embed_batch(tuple(field_paths)), cached in the same way.
EmbedFields(i) ==
    /\ req[i].pc = "embed_fields"
    /\ LET texts == FieldPaths(req[i].telemetry.tree)
       IN  IF Memoized(req[i].extractor, texts)
           THEN /\ \E c \in ServiceChoices(texts) : req' = [req EXCEPT ![i] = Candidates(@, c)]
                /\ UNCHANGED <<calls, memo>>
           ELSE /\ calls' = [calls EXCEPT ![i] = Append(@, "embed")]
                /\ \/ /\ \E c \in ServiceChoices(texts) :
                            req' = [req EXCEPT ![i] = Candidates(@, c)]
                      /\ memo' = memo \cup {<<req[i].extractor, texts>>}
                   \/ /\ req' = [req EXCEPT ![i] = Fail(@, 500, "embedding call failed")]
                      /\ UNCHANGED memo
    /\ UNCHANGED <<convVars, pureVars, env, served>>

\* A variant that calls the rerank service again when the call fails.
RerankRetry(i) ==
    /\ req[i].pc = "rerank"
    /\ calls' = [calls EXCEPT ![i] = Append(@, "rerank")]
    /\ \/ \E kept \in ServiceChoices(req[i].selected) :
            req' = [req EXCEPT ![i] = [@ EXCEPT !.pc = "extracted", !.selected = kept]]
       \/ UNCHANGED req
    /\ UNCHANGED <<convVars, pureVars, env, served, memo>>

\* self._co.rerank(...): one call to the rerank service, which returns the
\* candidates it keeps.
Rerank(i) ==
    /\ req[i].pc = "rerank"
    /\ calls' = [calls EXCEPT ![i] = Append(@, "rerank")]
    /\ \/ \E kept \in ServiceChoices(req[i].selected) :
            req' = [req EXCEPT ![i] = [@ EXCEPT !.pc = "extracted", !.selected = kept]]
       \/ req' = [req EXCEPT ![i] = Fail(@, 500, "rerank call failed")]
    /\ UNCHANGED <<convVars, pureVars, env, served, memo>>

\* After extract_relevant_data: /analysis computes the metrics of the
\* extracted tree and answers; the chat paths compute the metrics of the
\* whole telemetry, on the anomaly path the primitive flags too, and build
\* their prompt.
AfterExtract(i) ==
    /\ req[i].pc = "extracted"
    /\ req' = [req EXCEPT ![i] =
                 IF @.path = "analysis"
                 THEN [@ EXCEPT !.pc = "done", !.status = 200,
                         !.table = compute_metrics(Selected(req[i].telemetry.tree,
                                                            req[i].selected))]
                 ELSE IF @.path = "anomaly"
                 THEN (IF highlight_anomalies(@.telemetry.tree).kind = "raise"
                       THEN Fail(@, 500, "highlight_anomalies raised")
                       ELSE [@ EXCEPT !.pc = "llm", !.prompt = AnomalyPrompt,
                                      !.table = compute_metrics(req[i].telemetry.tree)])
                 ELSE [@ EXCEPT !.pc = "llm", !.prompt = MetricPrompt(history),
                                !.table = compute_metrics(req[i].telemetry.tree)]]
    /\ UNCHANGED <<convVars, pureVars, env, calls, served, memo>>

\* _llm() / _groq(): RuntimeError without GROQ_API_KEY; then the completion
\* call; its text is split, the assistant turn saved and the result returned.
LlmCall(i) ==
    /\ req[i].pc = "llm"
    /\ \/ /\ ~env.groq
          /\ req' = [req EXCEPT ![i] = Fail(@, 500, "GROQ_API_KEY not set")]
          /\ UNCHANGED <<history, calls>>
       \/ /\ env.groq
          /\ calls' = [calls EXCEPT ![i] = Append(@, "llm")]
          /\ req' = [req EXCEPT ![i] = Fail(@, 500, "completion call failed")]
          /\ UNCHANGED history
       \/ /\ env.groq
          /\ calls' = [calls EXCEPT ![i] = Append(@, "llm")]
          /\ \E content \in RawAnswers :
                LET result == ParseResponse(content)
                IN  /\ history' = ConvAppend(history, "assistant",
                                             Turn(result.answer, req[i]))
                    /\ req' = [req EXCEPT ![i] =
                                 [@ EXCEPT !.pc = "done", !.status = 200,
                                           !.result = result]]
    /\ UNCHANGED <<appended, pureVars, env, served, memo>>

\* The response is sent and the connection closed.
Respond(i) ==
    /\ req[i].pc = "done"
    /\ req' = [req EXCEPT ![i] = NoReq]
    /\ calls' = [calls EXCEPT ![i] = <<>>]
    /\ served' = served + 1
    /\ UNCHANGED <<convVars, pureVars, env, memo>>

Init == InitConv /\ InitPure /\ InitRequests

Next ==
    \E i \in Slots :
        \/ Connect(i)
        \/ ChatArrives(i)
        \/ AnalysisArrives(i)
        \/ ChatReject(i)
        \/ ChatAccept(i)
        \/ AnalysisInvalid(i)
        \/ AnalysisReject(i)
        \/ AnalysisAccept(i)
        \/ ExtractorInit(i)
        \/ EmbedQuestion(i)
        \/ EmbedFields(i)
        \/ Rerank(i)
        \/ AfterExtract(i)
        \/ LlmCall(i)
        \/ Respond(i)

Spec == Init /\ [][Next]_vars

\* A request that has to be refused: a /chat question made of white space
\* only (or of nothing), a /analysis body without telemetry or with {}.
OnlyWhitespace(q) == \A i \in 1..Len(q) : IsWs(q[i])

MustBeRefused(r) ==
    \/ r.kind = "chat" /\ OnlyWhitespace(r.question)
    \/ r.kind = "analysis" /\ (~r.telemetry.given \/ r.telemetry.tree = EmptyDict)

\* C2: a POST /chat request whose question is empty or white space only, and
\* a POST /analysis request whose telemetry is missing or empty, never gets
\* past its handler's first test: no embedding, rerank or language-model
\* call is made for it, the conversation history stays as it was when the
\* request arrived, and the answer it ends with is a client error (4xx).
C2_RejectedBeforeAnyCall ==
    \A i \in Slots :
        MustBeRefused(req[i]) =>
            /\ req[i].pc \in {"handler", "done"}
            /\ calls[i] = <<>>
            /\ history = req[i].hist0
            /\ req[i].pc = "done" => req[i].status \in {400, 422}

\* A white-space question refused with 400 after an earlier request was
\* answered and left its two turns in the history.
C2_Witness ==
    \E i \in Slots :
        /\ req[i].kind = "chat"
        /\ req[i].question = <<"SP", "NL">>
        /\ req[i].pc = "done"
        /\ req[i].status = 400
        /\ served = 1
        /\ Len(history) = 2
        /\ calls[i] = <<>>

\* The arrays of one message type of the tree differ in length.
MismatchedLengths(t) ==
    /\ "messages" \in DOMAIN t
    /\ \E m \in DOMAIN t.messages :
          \E f, g \in DOMAIN t.messages[m] :
              Len(t.messages[m][f]) # Len(t.messages[m][g])

\* C14: field sequences of different lengths within one message type do not
\* crash the system: a request that carries such a tree is not ended by an
\* exception of the anomaly detector or of a metric function.
C14_NoCrashOnLengthMismatch ==
    \A i \in Slots :
        req[i].telemetry.given /\ MismatchedLengths(req[i].telemetry.tree)
            => req[i].error # "highlight_anomalies raised"

\* Some turn of another request sits in the history between the user turn
\* and the assistant turn of one request.
Interleaved ==
    \E a, b, c \in 1..Len(history) :
        /\ a < b /\ b < c
        /\ history[a].role = "user"
        /\ history[c].role = "assistant"
        /\ history[a].content.by = history[c].content.by
        /\ history[b].content.by # history[a].content.by

\* The requests, other than slot i's, that wrote a turn of the
\* recent-conversation block of the prompt of slot i.
BlockOthers(i) ==
    {req[i].prompt.block[k].content.by : k \in 1..Len(req[i].prompt.block)}
        \ {req[i].rid}

\* Slot i holds a chat request that has been answered by the language model.
Answered(i) == req[i].kind = "chat" /\ req[i].pc = "done" /\ req[i].status = 200

ReachedModel(i) == \E k \in 1..Len(calls[i]) : calls[i][k] = "llm"

\* C16: the prompt of every chat request that carries telemetry and reaches
\* the language model holds the three analysis outputs (the metrics table,
\* the extracted relevant fields, the anomaly flags) together with the
\* user's question and the recent conversation turns.
C16_PromptHoldsAll ==
    \A i \in Slots :
        req[i].kind = "chat" /\ req[i].telemetry.given /\ ReachedModel(i)
            => /\ {"question", "metrics", "extracted", "flags", "history"}
                      \subseteq req[i].prompt.holds
               /\ req[i].prompt.block # <<>>

\* The request of slot i is on a path that uses the embedding service
\* (COHERE_API_KEY) or the language model (GROQ_API_KEY).
NeedsCohere(i) == req[i].path \in {"anomaly", "metric", "analysis"}

NeedsGroq(i) == req[i].path \in {"anomaly", "metric", "general"}

MissingCredential(i) ==
    \/ ~env.cohere /\ NeedsCohere(i)
    \/ ~env.groq /\ NeedsGroq(i)

\* C17: a request that needs a credential the environment does not hold
\* fails fast: no external-service call is made for it, and it ends with the
\* configuration error that names the missing variable.
C17_FailsFastOnMissingKey ==
    \A i \in Slots :
        MissingCredential(i) =>
            /\ calls[i] = <<>>
            /\ req[i].pc = "done" =>
                  req[i].error \in {"COHERE_API_KEY environment variable not set.",
                                    "GROQ_API_KEY not set"}

\* The batches of texts whose embeddings were fetched and cached for a
\* request that came before the one of slot i.
EmbeddedBefore(i) == {m[2] : m \in {e \in memo : e[1] # req[i].rid}}

\* C18: embeddings are memoized for the life of the process: a request that
\* asks a question already asked, against telemetry with the field paths
\* already seen, makes no call to the embedding service.
C18_SecondAskNoEmbedCall ==
    \A i \in Slots :
        (/\ req[i].extractor # 0
         /\ {req[i].question} \in EmbeddedBefore(i)
         /\ FieldPaths(req[i].telemetry.tree) \in EmbeddedBefore(i))
            => \A k \in 1..Len(calls[i]) : calls[i][k] # "embed"

\* C23: the metrics POST /analysis answers with are the table of
\* compute_metrics for the raw telemetry of the request, whatever the hint
\* and whatever fields the ranker selected.
C23_AnalysisMetricsOfRawTelemetry ==
    \A i \in Slots :
        req[i].kind = "analysis" /\ req[i].pc = "done" /\ req[i].status = 200
            => req[i].table = compute_metrics(req[i].telemetry.tree)

\* How many times the service was called for the request of slot i.
CallCount(i, service) ==
    Cardinality({k \in 1..Len(calls[i]) : calls[i][k] = service})

\* The service whose failure the error reports.
FailedService(error) ==
    CASE error = "embedding call failed" -> "embed"
      [] error = "rerank call failed" -> "rerank"
      [] error = "completion call failed" -> "llm"
      [] OTHER -> "none"

\* C24: no external call is repeated within a chat request: at most two
\* embedding calls, one rerank call and one language-model call, in this
\* order; exactly one language-model call when the request succeeds; no
\* embedding or rerank call without telemetry; and the call that fails is
\* the last call of its request.
C24_NoCallRepeated ==
    \A i \in Slots :
        req[i].kind = "chat" =>
            /\ CallCount(i, "embed") <= 2
            /\ CallCount(i, "rerank") <= 1
            /\ CallCount(i, "llm") <= 1
            /\ \A j, k \in 1..Len(calls[i]) :
                  j < k => /\ calls[i][j] # "llm"
                           /\ calls[i][j] = "rerank" => calls[i][k] = "llm"
            /\ req[i].status = 200 => CallCount(i, "llm") = 1
            /\ ~req[i].telemetry.given =>
                  CallCount(i, "embed") = 0 /\ CallCount(i, "rerank") = 0
            /\ FailedService(req[i].error) # "none" =>
                  /\ req[i].pc = "done"
                  /\ calls[i] # <<>>
                  /\ Last(calls[i]) = FailedService(req[i].error)

\* A chat request answered after two embedding calls, one rerank call and
\* one language-model call.
C24_Witness ==
    \E i \in Slots :
        /\ req[i].kind = "chat" /\ req[i].pc = "done" /\ req[i].status = 200
        /\ calls[i] = <<"embed", "embed", "rerank", "llm">>

\* The positions of the turns request rid wrote with the role.
TurnsBy(rid, role) ==
    {k \in 1..Len(history) :
        history[k].role = role /\ history[k].content.by = rid}

\* C27: process_chat_request logs the user turn before any credential check
\* or external call and the assistant turn only after the language model has
\* answered: a request that fails in between leaves its user turn in the
\* history with no assistant turn, and the prompts built later hold the
\* last turns of the history as it then is, that turn included.
C27_UserTurnStaysOnFailure ==
    /\ \A i \in Slots :
          req[i].kind = "chat" =>
              /\ req[i].path = "none" =>
                    /\ TurnsBy(req[i].rid, "user") = {}
                    /\ calls[i] = <<>>
                    /\ req[i].error \in {"none", "Question cannot be empty"}
              /\ req[i].path # "none" =>
                    Cardinality(TurnsBy(req[i].rid, "user")) = 1
              /\ TurnsBy(req[i].rid, "assistant") # {} <=>
                    req[i].status = 200
              /\ req[i].status = 200 =>
                    /\ Last(calls[i]) = "llm"
                    /\ TurnsBy(req[i].rid, "assistant") = {Len(history)}
                    /\ TurnsBy(req[i].rid, "user") = {Len(history) - 1}
              /\ "history" \in req[i].prompt.holds /\ req[i].pc = "llm" =>
                    req[i].prompt.block = Suffix(history, 3)
    /\ \A k \in 1..Len(history) :
          history[k].role = "assistant" =>
              /\ k > 1
              /\ history[k - 1].role = "user"
              /\ history[k - 1].content.by = history[k].content.by

\* A request failed after its user turn was logged, and a later request,
\* answered since, had that turn in its recent-conversation block.
C27_Witness ==
    \E i \in Slots :
        /\ Answered(i)
        /\ Len(history) = 3
        /\ Len(req[i].prompt.block) = 2
        /\ req[i].prompt.block[1] = history[1]
        /\ history[1].role = "user"
        /\ history[1].content.by # req[i].rid
        /\ TurnsBy(history[1].content.by, "assistant") = {}

\* C28: every recent-conversation block injected into a prompt ends with
\* the request's own question: the block is never empty (the no-history
\* branch of _inject_history is not taken) and at most two of its turns are
\* earlier conversation.
C28_BlockEndsWithOwnQuestion ==
    \A i \in Slots :
        "history" \in req[i].prompt.holds =>
            LET block == req[i].prompt.block
            IN  /\ block # <<>>
                /\ Len(block) <= 3
                /\ Last(block) = [role |-> "user",
                                  content |-> [text |-> req[i].question,
                                               by |-> req[i].rid]]
                /\ \A k \in 1..(Len(block) - 1) :
                      block[k].content.by # req[i].rid
                /\ Cardinality({k \in 1..Len(block) :
                                  block[k].content.by # req[i].rid}) <= 2

\* A prompt of the metric path whose block holds the two turns of an
\* earlier, answered request and then the request's own question.
C28_Witness ==
    \E i \in Slots :
        /\ req[i].path = "metric"
        /\ req[i].pc = "llm"
        /\ Len(req[i].prompt.block) = 3
        /\ req[i].prompt.block[1].role = "user"
        /\ req[i].prompt.block[2].role = "assistant"
        /\ req[i].prompt.block[2].content.by # req[i].rid
        /\ req[i].prompt.block[3].content.text = req[i].question

====
